---- MODULE Spec2Model ----
(***************************************************************************)
(* Model of the profile visualizer's batch pipeline.                       *)
(*                                                                         *)
(*   ops.json --OpsSpec::validate_and_build--> ValidatedOps                *)
(*            --build_report_data-----------> ReportData                   *)
(*                                                                         *)
(* and of the historical name-DAG validator (DagSpec::validate_and_build), *)
(* whose recursive dfs is modelled as a machine with an explicit call      *)
(* stack.                                                                  *)
(*                                                                         *)
(* Strings are sequences of code points, so that trim, the byte-wise       *)
(* string order of BTreeMap<String, _> and u32::to_string are computed     *)
(* rather than assumed.  Option<T> is [some, v].                           *)
(***************************************************************************)
EXTENDS Integers, Sequences, FiniteSets, TLC

VARIABLES
    pc,        \* position of main(): "start", "validated", "failed", "reported"
    rawNodes,  \* OpsSpec.nodes : Vec<RawNode>
    rawRules,  \* OpsSpec.rules : Vec<RawRule>
    timeIdx,   \* TimeIndex parsed from the time log
    memIdx,    \* MemoryIndex parsed from the memory log
    out,       \* Result<ValidatedOps> returned by validate_and_build
    report,    \* Result<ReportData> returned by build_report_data
    oldNodes,  \* nodes_spec of the single-source aggregation (model::build_report_data)
    oldReport, \* Result<ReportData> returned by model::build_report_data
    dagSpec,   \* DagSpec: nodes, edges, roots (dag.json)
    dpc,       \* position of DagSpec::validate_and_build: "start", "dfs", "done", "failed"
    dagRoots,  \* roots, once step 3 has computed them
    rootIdx,   \* position of the `for r in &roots` loop (1-based)
    marks,     \* marks : BTreeMap<String, Mark>
    stack,     \* stack : Vec<String>, the path reported on a cycle
    frames,    \* the active calls of dfs, outermost first: [v, k] with k the next kid
    dagOut,    \* Result<NameDag> returned by DagSpec::validate_and_build
    page,      \* the report page: "closed", or "open" once its script has run
    state,     \* the page's state: expanded, selected, search, view, graph
    svg,       \* the #graphSvg element made by the last renderGraph, with its listeners' closure
    prevSvg,   \* the #graphSvg element that the last renderGraph replaced
    passes,    \* number of renderGraph passes so far
    gestures,  \* number of pan and zoom updates of state.graph so far
    wheelAt    \* cursor point of the last wheel event that zoomed, <<>> before any

opsVars == <<pc, rawNodes, rawRules, timeIdx, memIdx, out, report, oldNodes, oldReport>>

dagVars == <<dagSpec, dpc, dagRoots, rootIdx, marks, stack, frames, dagOut>>

uiVars == <<page, state, svg, prevSvg, passes, gestures, wheelAt>>

vars == <<opsVars, dagVars, uiVars>>

----------------------------------------------------------------------------
(* Generic helpers: options, strings, ordered maps.                        *)

None == [some |-> FALSE, v |-> <<>>]

Some(s) == [some |-> TRUE, v |-> s]

\* char::is_whitespace restricted to ASCII: TAB, LF, VT, FF, CR, SPACE.
IsWs(c) == c \in {9, 10, 11, 12, 13, 32}

RECURSIVE TrimStart(_)
TrimStart(s) ==
    IF s = <<>> THEN <<>>
    ELSE IF IsWs(Head(s)) THEN TrimStart(Tail(s)) ELSE s

RECURSIVE TrimEnd(_)
TrimEnd(s) ==
    IF s = <<>> THEN <<>>
    ELSE IF IsWs(s[Len(s)]) THEN TrimEnd(SubSeq(s, 1, Len(s) - 1)) ELSE s

\* str::trim
Trim(s) == TrimEnd(TrimStart(s))

\* Ord for String / Vec<u32>: lexicographic over the elements.
RECURSIVE SeqLess(_, _)
SeqLess(a, b) ==
    IF b = <<>> THEN FALSE
    ELSE IF a = <<>> THEN TRUE
    ELSE IF Head(a) < Head(b) THEN TRUE
    ELSE IF Head(a) > Head(b) THEN FALSE
    ELSE SeqLess(Tail(a), Tail(b))

\* The elements of a finite set of naturals in ascending order
\* (iteration order of BTreeMap<u32, _>, result of sort + dedup on Vec<u32>).
RECURSIVE SortNat(_)
SortNat(S) ==
    IF S = {} THEN <<>>
    ELSE LET m == CHOOSE x \in S : \A y \in S : x <= y
         IN <<m>> \o SortNat(S \ {m})

\* The elements of a finite set of strings in ascending (byte-wise) order
\* (iteration order of BTreeMap<String, _>, result of sort + dedup on Vec<String>).
RECURSIVE SortStr(_)
SortStr(S) ==
    IF S = {} THEN <<>>
    ELSE LET m == CHOOSE x \in S : \A y \in S : x = y \/ SeqLess(x, y)
         IN <<m>> \o SortStr(S \ {m})

Range(s) == {s[i] : i \in 1..Len(s)}

EmptyMap == [k \in {} |-> 0]

MapPut(m, k, v) == [x \in DOMAIN m \cup {k} |-> IF x = k THEN v ELSE m[x]]

\* "other", the default block of a node without one.
StrOther == <<111, 116, 104, 101, 114>>

----------------------------------------------------------------------------
(* OpsSpec::validate_and_build                                             *)

\* normalize_parents on Vec<u32>: sort + dedup.
normalize_parents(parents) == SortNat(Range(parents))

\* normalize_parents on Vec<String>: sort + dedup.
normalize_parents_str(parents) == SortStr(Range(parents))

\* Fingerprint normalization of Phase 1: trim, empty becomes None.
NormFingerprint(fp) ==
    IF ~fp.some THEN None
    ELSE IF Trim(fp.v) = <<>> THEN None ELSE Some(Trim(fp.v))

\* One NodeSpec from one RawNode.
NodeSpecOf(raw) ==
    [id          |-> raw.id,
     label       |-> raw.name,
     tags        |-> raw.tags,
     block       |-> IF raw.block.some THEN raw.block.v ELSE StrOther,
     fingerprint |-> NormFingerprint(raw.fingerprint),
     parents     |-> normalize_parents(raw.parents),
     operators   |-> Range(raw.operators)]

Err(kind, args) == [ok |-> FALSE, kind |-> kind, args |-> args]

\* Mutant of Phase1: no duplicate test, a later node replaces an earlier one.
Phase1LastWins(raw) ==
    IF Len(raw) = 0
    THEN Err("no_nodes", [id |-> 0])
    ELSE [ok    |-> TRUE,
          nodes |-> [id \in {raw[i].id : i \in 1..Len(raw)} |->
                       NodeSpecOf(raw[CHOOSE i \in 1..Len(raw) :
                                        /\ raw[i].id = id
                                        /\ \A j \in (i + 1)..Len(raw) : raw[j].id # id])]]

\* Phase 1: the node map keyed by id, or the duplicate-id / no-nodes error.
Phase1(raw) ==
    LET dups == {j \in 1..Len(raw) : \E i \in 1..(j - 1) : raw[i].id = raw[j].id}
    IN  IF dups # {}
        THEN LET j == CHOOSE x \in dups : \A y \in dups : x <= y
             IN Err("duplicate_id", [id |-> raw[j].id])
        ELSE IF Len(raw) = 0
        THEN Err("no_nodes", [id |-> 0])
        ELSE [ok    |-> TRUE,
              nodes |-> [id \in {raw[i].id : i \in 1..Len(raw)} |->
                           NodeSpecOf(raw[CHOOSE i \in 1..Len(raw) : raw[i].id = id])]]

\* Mutant of FingerprintKey: the block is left out of the key.
FingerprintKeyNoBlock(node) == <<StrOther, node.fingerprint.v>>

\* Key of fingerprint_block_to_node: (block, fingerprint).
FingerprintKey(node) == <<node.block, node.fingerprint.v>>

\* Mutant of RecordFingerprint: insert instead of entry().or_insert(), so
\* that the last node recorded wins.
RecordFingerprintLast(fingerprint_to_node, fp, id) ==
    MapPut(fingerprint_to_node, fp, id)

\* fingerprint_to_node.entry(fp).or_insert(id): the first node recorded stays.
RecordFingerprint(fingerprint_to_node, fp, id) ==
    IF fp \in DOMAIN fingerprint_to_node
    THEN fingerprint_to_node
    ELSE MapPut(fingerprint_to_node, fp, id)

\* Phase 2a loop over the node map in ascending id order, from position i of
\* ids, with the two maps built so far.
RECURSIVE Phase2aLoop(_, _, _, _, _)
Phase2aLoop(nodes, ids, i, fingerprint_to_node, fingerprint_block_to_node) ==
    IF i > Len(ids)
    THEN [ok |-> TRUE, fingerprint_to_node |-> fingerprint_to_node]
    ELSE LET id   == ids[i]
             node == nodes[id]
         IN  IF ~node.fingerprint.some
             THEN Phase2aLoop(nodes, ids, i + 1, fingerprint_to_node,
                              fingerprint_block_to_node)
             ELSE LET fp  == node.fingerprint.v
                      key == FingerprintKey(node)
                  IN  IF key \in DOMAIN fingerprint_block_to_node
                      THEN Err("fingerprint_collision",
                               [fp    |-> fp,
                                block |-> key[1],
                                prev  |-> fingerprint_block_to_node[key],
                                id    |-> id])
                      ELSE Phase2aLoop(nodes, ids, i + 1,
                               RecordFingerprint(fingerprint_to_node, fp, id),
                               MapPut(fingerprint_block_to_node, key, id))

\* Phase 2a: fingerprints unique within a block; global fingerprint -> node map.
Phase2a(nodes) == Phase2aLoop(nodes, SortNat(DOMAIN nodes), 1, EmptyMap, EmptyMap)

\* Phase 2b: roots are the nodes with no parents, sorted.
Phase2b(nodes) == SortNat({id \in DOMAIN nodes : nodes[id].parents = <<>>})

\* Mutant of Phase2c: parents are not looked up.
Phase2cNoCheck(nodes) == [ok |-> TRUE]

\* Phase 2c: every parent id must exist.
Phase2c(nodes) ==
    LET bad == {id \in DOMAIN nodes :
                  \E k \in 1..Len(nodes[id].parents) :
                      nodes[id].parents[k] \notin DOMAIN nodes}
    IN  IF bad = {} THEN [ok |-> TRUE]
        ELSE LET id  == CHOOSE x \in bad : \A y \in bad : x <= y
                 ps  == nodes[id].parents
                 k   == CHOOSE x \in 1..Len(ps) :
                            /\ ps[x] \notin DOMAIN nodes
                            /\ \A y \in 1..(x - 1) : ps[y] \in DOMAIN nodes
             IN Err("missing_parent", [node |-> id, pid |-> ps[k]])

\* Phase 3, first loop over one rule's plan_tree entries from position i:
\* raw_parents collects fingerprint -> normalized parents.  nodes_map is the
\* map the duplicate check consults; this loop never inserts into it.
RECURSIVE PlanLoop(_, _, _, _, _)
PlanLoop(raw_rule, fingerprint_to_node, i, raw_parents, nodes_map) ==
    IF i > Len(raw_rule.plan_tree)
    THEN [ok |-> TRUE, raw_parents |-> raw_parents]
    ELSE LET pn == raw_rule.plan_tree[i]
             fp == Trim(pn.fingerprint)
         IN  IF fp = <<>>
             THEN Err("empty_plan_fingerprint", [rule |-> raw_rule.text])
             ELSE IF fp \in DOMAIN nodes_map
             THEN Err("duplicate_plan_fingerprint", [rule |-> raw_rule.text, fp |-> fp])
             ELSE IF fp \notin DOMAIN fingerprint_to_node
             THEN Err("unknown_plan_fingerprint", [rule |-> raw_rule.text, fp |-> fp])
             ELSE PlanLoop(raw_rule, fingerprint_to_node, i + 1,
                           MapPut(raw_parents, fp, normalize_parents_str(pn.parents)),
                           nodes_map)

\* Phase 3, second loop: every parent named in raw_parents is a key of it.
\* Keys and parents are visited in ascending order; the first miss is reported.
PlanParentsExist(raw_rule, raw_parents) ==
    LET keys == SortStr(DOMAIN raw_parents)
        bad  == {k \in 1..Len(keys) :
                   \E j \in 1..Len(raw_parents[keys[k]]) :
                       raw_parents[keys[k]][j] \notin DOMAIN raw_parents}
    IN  IF bad = {} THEN [ok |-> TRUE]
        ELSE LET k  == CHOOSE x \in bad : \A y \in bad : x <= y
                 ps == raw_parents[keys[k]]
                 j  == CHOOSE x \in 1..Len(ps) :
                           /\ ps[x] \notin DOMAIN raw_parents
                           /\ \A y \in 1..(x - 1) : ps[y] \in DOMAIN raw_parents
             IN Err("missing_plan_parent", [rule |-> raw_rule.text, parent |-> ps[j]])

\* Phase 3: children derived from the parent edges, sorted and deduplicated.
DeriveChildren(raw_parents) ==
    [p \in DOMAIN raw_parents |->
        [children |-> SortStr({c \in DOMAIN raw_parents :
                                 p \in Range(raw_parents[c])})]]

\* Phase 3: the sinks of a plan tree, in key order.
Sinks(nodes_map) ==
    SortStr({fp \in DOMAIN nodes_map : nodes_map[fp].children = <<>>})

\* Phase 3: exactly one sink.
SinkCountOk(sinks) == Len(sinks) = 1

\* Phase 3 for one rule: its RuleSpec or the first error.
BuildRule(raw_rule, fingerprint_to_node) ==
    LET l1 == PlanLoop(raw_rule, fingerprint_to_node, 1, EmptyMap, EmptyMap)
    IN  IF ~l1.ok THEN l1
        ELSE LET l2 == PlanParentsExist(raw_rule, l1.raw_parents)
             IN  IF ~l2.ok THEN l2
                 ELSE LET nodes_map == DeriveChildren(l1.raw_parents)
                          sinks     == Sinks(nodes_map)
                      IN  IF ~SinkCountOk(sinks)
                          THEN Err("sink_count", [rule  |-> raw_rule.text,
                                                  found |-> Len(sinks)])
                          ELSE [ok   |-> TRUE,
                                rule |-> [text  |-> raw_rule.text,
                                          root  |-> sinks[1],
                                          nodes |-> nodes_map]]

\* Phase 3: all rules in input order; stops at the first error.
RECURSIVE Phase3Loop(_, _, _, _)
Phase3Loop(raw_rules, fingerprint_to_node, i, rules_out) ==
    IF i > Len(raw_rules)
    THEN [ok |-> TRUE, rules |-> rules_out]
    ELSE LET r == BuildRule(raw_rules[i], fingerprint_to_node)
         IN  IF ~r.ok THEN r
             ELSE Phase3Loop(raw_rules, fingerprint_to_node, i + 1,
                             Append(rules_out, r.rule))

Phase3(raw_rules, fingerprint_to_node) ==
    Phase3Loop(raw_rules, fingerprint_to_node, 1, <<>>)

\* Phase 4: the fingerprints recorded in rules.
RuleFps(rules_out) ==
    UNION {DOMAIN rules_out[i].nodes : i \in 1..Len(rules_out)}

\* Mutant of Phase4: the check is made only when rules were given.
Phase4OnlyWithRules(nodes, rules_out) ==
    LET bad == {id \in DOMAIN nodes :
                  /\ nodes[id].fingerprint.some
                  /\ nodes[id].fingerprint.v \notin RuleFps(rules_out)}
    IN  IF bad = {} \/ rules_out = <<>> THEN [ok |-> TRUE]
        ELSE LET id == CHOOSE x \in bad : \A y \in bad : x <= y
             IN Err("fingerprint_not_in_rules",
                    [id |-> id, fp |-> nodes[id].fingerprint.v])

\* Phase 4: every fingerprinted node appears in some rule.
Phase4(nodes, rules_out) ==
    LET rule_fps == RuleFps(rules_out)
        bad == {id \in DOMAIN nodes :
                  /\ nodes[id].fingerprint.some
                  /\ nodes[id].fingerprint.v \notin rule_fps}
    IN  IF bad = {} THEN [ok |-> TRUE]
        ELSE LET id == CHOOSE x \in bad : \A y \in bad : x <= y
             IN Err("fingerprint_not_in_rules",
                    [id |-> id, fp |-> nodes[id].fingerprint.v])

\* OpsSpec::validate_and_build: Ok(ValidatedOps) or the first error.
ValidateAndBuild(raw_nodes, raw_rules) ==
    LET p1 == Phase1(raw_nodes)
    IN  IF ~p1.ok THEN p1
        ELSE LET nodes == p1.nodes
                 p2a   == Phase2a(nodes)
             IN  IF ~p2a.ok THEN p2a
                 ELSE LET roots == Phase2b(nodes)
                          p2c   == Phase2c(nodes)
                      IN  IF ~p2c.ok THEN p2c
                          ELSE LET p3 == Phase3(raw_rules, p2a.fingerprint_to_node)
                               IN  IF ~p3.ok THEN p3
                                   ELSE LET p4 == Phase4(nodes, p3.rules)
                                        IN  IF ~p4.ok THEN p4
                                            ELSE [ok    |-> TRUE,
                                                  nodes |-> nodes,
                                                  roots |-> roots,
                                                  rules |-> p3.rules,
                                                  fingerprint_to_node |->
                                                      p2a.fingerprint_to_node]

----------------------------------------------------------------------------
(* main: the hand-over from validate_and_build to build_report_data.       *)

\* u32::to_string: decimal digits, most significant first.
RECURSIVE DecStr(_)
DecStr(n) ==
    IF n < 10 THEN <<48 + n>> ELSE DecStr(n \div 10) \o <<48 + (n % 10)>>

\* nodes_by_name: the node map re-keyed by the stringified id.
NodesByName(nodes) ==
    [name \in {DecStr(id) : id \in DOMAIN nodes} |->
        nodes[CHOOSE id \in DOMAIN nodes : DecStr(id) = name]]

\* roots as strings, in the order of root_ids.
RootNames(root_ids) == [i \in 1..Len(root_ids) |-> DecStr(root_ids[i])]

\* fingerprint_to_node with stringified node ids.
FingerprintToName(fingerprint_to_node) ==
    [fp \in DOMAIN fingerprint_to_node |-> DecStr(fingerprint_to_node[fp])]

----------------------------------------------------------------------------
(* build_report_data                                                       *)

\* Addresses of a set in ascending order (BTreeSet<Addr> / BTreeMap<Addr, _>).
SortAddr(S) == SortStr(S)

\* Mutant of ReportPhase0: the two logs are not compared.
ReportPhase0NoCheck(time, memory) == [ok |-> TRUE]

\* Phase 0: op_name agrees wherever an addr is in both logs.
ReportPhase0(time, memory) ==
    LET bad == {a \in DOMAIN memory :
                  a \in DOMAIN time /\ time[a].op_name # memory[a].op_name}
    IN  IF bad = {} THEN [ok |-> TRUE]
        ELSE LET a == SortAddr(bad)[1]
             IN Err("op_name_mismatch",
                    [addr |-> a, time |-> time[a].op_name, memory |-> memory[a].op_name])

\* Phase 1 loop: names in ascending order, each name's addresses in ascending
\* order; owner is the map built so far.
RECURSIVE ReportPhase1Loop(_, _, _, _, _)
ReportPhase1Loop(nodes_spec, names, i, j, owner) ==
    IF i > Len(names) THEN [ok |-> TRUE, owner |-> owner]
    ELSE LET name  == names[i]
             addrs == SortAddr(nodes_spec[name].operators)
         IN  IF j > Len(addrs)
             THEN ReportPhase1Loop(nodes_spec, names, i + 1, 1, owner)
             ELSE IF addrs[j] \in DOMAIN owner
             THEN Err("addr_multiple_names",
                      [addr |-> addrs[j], prev |-> owner[addrs[j]], name |-> name])
             ELSE ReportPhase1Loop(nodes_spec, names, i, j + 1,
                                   MapPut(owner, addrs[j], name))

\* Mutant of ReportPhase1: ownership is not checked.
ReportPhase1NoCheck(nodes_spec) == [ok |-> TRUE, owner |-> EmptyMap]

\* Phase 1: each operator addr belongs to at most one name.
ReportPhase1(nodes_spec) ==
    ReportPhase1Loop(nodes_spec, SortStr(DOMAIN nodes_spec), 1, 1, EmptyMap)

\* Phase 2: a node's parents as strings, sorted and deduplicated.
NormalizedParents(spec) ==
    normalize_parents_str([k \in 1..Len(spec.parents) |-> DecStr(spec.parents[k])])

\* Phase 2: the primary parent is the first of the normalized parents.
PrimaryParent(spec) ==
    LET parents == NormalizedParents(spec)
    IN  IF parents = <<>> THEN None ELSE Some(parents[1])

\* Phase 2: the parents after the primary one.
ExtraParents(spec) ==
    LET parents == NormalizedParents(spec)
    IN  IF parents = <<>> THEN <<>> ELSE SubSeq(parents, 2, Len(parents))

\* Phase 2: tree_children.get(name).unwrap_or_default().
TreeChildren(nodes_spec, name) ==
    SortStr({child \in DOMAIN nodes_spec :
               /\ PrimaryParent(nodes_spec[child]).some
               /\ PrimaryParent(nodes_spec[child]).v = name})

\* Phase 2: the provided roots plus every node without a primary parent.
ReportRoots(nodes_spec, roots) ==
    SortStr(Range(roots) \cup
            {name \in DOMAIN nodes_spec : ~PrimaryParent(nodes_spec[name]).some})

\* u64 counters are counted in units of 2^62, so that a u64 holds 0 .. 3 units
\* and an addition that reaches 4 units overflows.
U64Modulus == 4

\* The value a u64 accumulator holds after wrapping additions that sum to n.
U64Wrap(n) == n % U64Modulus

RECURSIVE SumSeq(_)
SumSeq(q) == IF q = <<>> THEN 0 ELSE Head(q) + SumSeq(Tail(q))

\* Mutant of OperatorViewOf: the memory row is not looked up.
OperatorViewNoMemory(addr, time, memory) ==
    LET t == addr \in DOMAIN time
    IN  [addr            |-> addr,
         op_name         |-> IF t THEN time[addr].op_name ELSE <<>>,
         activations     |-> IF t THEN time[addr].activations ELSE 0,
         total_active_ms |-> IF t THEN time[addr].total_active_ms ELSE 0,
         batched_in      |-> None,
         merges          |-> None,
         merge_in        |-> None,
         merge_out       |-> None,
         dropped         |-> None]

\* Phase 3: one OperatorView; time fields are zero-filled and the memory
\* fields None when the addr is missing from the respective log.
OperatorViewOf(addr, time, memory) ==
    LET t == addr \in DOMAIN time
        m == addr \in DOMAIN memory
    IN  [addr            |-> addr,
         op_name         |-> IF t THEN time[addr].op_name ELSE <<>>,
         activations     |-> IF t THEN time[addr].activations ELSE 0,
         total_active_ms |-> IF t THEN time[addr].total_active_ms ELSE 0,
         batched_in      |-> IF m THEN Some(memory[addr].batched_in) ELSE None,
         merges          |-> IF m THEN Some(memory[addr].merges) ELSE None,
         merge_in        |-> IF m THEN Some(memory[addr].merge_in) ELSE None,
         merge_out       |-> IF m THEN Some(memory[addr].merge_out) ELSE None,
         dropped         |-> IF m THEN Some(memory[addr].dropped) ELSE None]

\* Phase 3: the per-operator cross-check of one addr fails.
CrossCheckFails(addr, time, memory) ==
    /\ addr \in DOMAIN memory
    /\ addr \in DOMAIN time
    /\ time[addr].op_name # <<>>
    /\ memory[addr].op_name # time[addr].op_name

\* Phase 3: the first (name, addr), in iteration order, whose cross-check fails.
ReportPhase3Check(nodes_spec, time, memory) ==
    LET names == SortStr(DOMAIN nodes_spec)
        bad   == {i \in 1..Len(names) :
                    \E a \in nodes_spec[names[i]].operators :
                        CrossCheckFails(a, time, memory)}
    IN  IF bad = {} THEN [ok |-> TRUE]
        ELSE LET i == CHOOSE x \in bad : \A y \in bad : x <= y
                 a == SortAddr({x \in nodes_spec[names[i]].operators :
                                  CrossCheckFails(x, time, memory)})[1]
             IN Err("op_name_mismatch",
                    [addr |-> a, time |-> time[a].op_name, memory |-> memory[a].op_name])

\* Sum of a memory field over the addrs of a sequence that have a memory row.
MemSum(addrs, memory, field) ==
    U64Wrap(SumSeq([k \in 1..Len(addrs) |->
              IF addrs[k] \in DOMAIN memory THEN memory[addrs[k]][field] ELSE 0]))

\* Phase 3: the NameNodeView of one name.
NameNodeViewOf(nodes_spec, name, time, memory) ==
    LET spec  == nodes_spec[name]
        addrs == SortAddr(spec.operators)
        ops   == [k \in 1..Len(addrs) |-> OperatorViewOf(addrs[k], time, memory)]
    IN  [name            |-> name,
         label           |-> spec.label,
         block           |-> spec.block,
         fingerprint     |-> spec.fingerprint,
         tags            |-> spec.tags,
         children        |-> TreeChildren(nodes_spec, name),
         dag_parents     |-> NormalizedParents(spec),
         extra_parents   |-> ExtraParents(spec),
         self_activations     |-> U64Wrap(SumSeq([k \in 1..Len(ops) |-> ops[k].activations])),
         self_total_active_ms |-> SumSeq([k \in 1..Len(ops) |-> ops[k].total_active_ms]),
         self_batched_in |-> MemSum(addrs, memory, "batched_in"),
         self_merges     |-> MemSum(addrs, memory, "merges"),
         self_merge_in   |-> MemSum(addrs, memory, "merge_in"),
         self_merge_out  |-> MemSum(addrs, memory, "merge_out"),
         self_dropped    |-> MemSum(addrs, memory, "dropped"),
         has_memory_data |-> \E a \in spec.operators : a \in DOMAIN memory,
         operators       |-> ops]

\* Mutant of ReportWarnings: nothing is logged.
ReportWarningsNone(nodes_spec, names, i, time) == <<>>

\* diagnostics::warn calls of Phase 3, in order: (name, addr) of every mapped
\* addr that is missing from the time log.
RECURSIVE ReportWarnings(_, _, _, _)
ReportWarnings(nodes_spec, names, i, time) ==
    IF i > Len(names) THEN <<>>
    ELSE LET addrs   == SortAddr(nodes_spec[names[i]].operators)
             missing == SortAddr({a \in Range(addrs) : a \notin DOMAIN time})
         IN  [k \in 1..Len(missing) |-> [name |-> names[i], addr |-> missing[k]]]
             \o ReportWarnings(nodes_spec, names, i + 1, time)

\* TotalsView.
TotalsOf(nodes_spec, nodes_view, time) ==
    LET names == SortStr(DOMAIN nodes_spec)
    IN  [names             |-> Cardinality(DOMAIN nodes_spec),
         operators_in_time |-> Cardinality(DOMAIN time),
         operators_mapped  |->
             SumSeq([i \in 1..Len(names) |->
                       Cardinality(nodes_spec[names[i]].operators \cap DOMAIN time)]),
         total_mapped_ms   |->
             SumSeq([i \in 1..Len(names) |-> nodes_view[names[i]].self_total_active_ms]),
         total_mapped_activations |->
             U64Wrap(SumSeq([i \in 1..Len(names) |-> nodes_view[names[i]].self_activations])),
         total_batched_in  |->
             U64Wrap(SumSeq([i \in 1..Len(names) |-> nodes_view[names[i]].self_batched_in]))]

\* Some `+=` on a u64 accumulator of Phase 3 overflows: the additions are of
\* non-negative counts, so one does exactly when the full sum of an
\* accumulator does not fit.  The accumulators are self_act and the five memory
\* sums of each name, total_mapped_activations and total_batched_in.
AccumulatorOverflows(nodes_spec, time, memory) ==
    LET names   == SortStr(DOMAIN nodes_spec)
        acts(S) == SumSeq([k \in 1..Len(SortAddr(S)) |->
                      IF SortAddr(S)[k] \in DOMAIN time
                      THEN time[SortAddr(S)[k]].activations ELSE 0])
        mem(S, field) == SumSeq([k \in 1..Len(SortAddr(S)) |->
                      IF SortAddr(S)[k] \in DOMAIN memory
                      THEN memory[SortAddr(S)[k]][field] ELSE 0])
        owned   == [i \in 1..Len(names) |-> nodes_spec[names[i]].operators]
    IN  \/ SumSeq([i \in 1..Len(names) |-> acts(owned[i])]) >= U64Modulus
        \/ SumSeq([i \in 1..Len(names) |-> mem(owned[i], "batched_in")]) >= U64Modulus
        \/ \E i \in 1..Len(names) :
              \E field \in {"merges", "merge_in", "merge_out", "dropped"} :
                  mem(owned[i], field) >= U64Modulus

\* parents taken to be the children.
PlanChildrenOf(rule, fp) == rule.nodes[fp].children

\* The parents map of build_rule_views at fp: the keys of the plan tree in
\* order, each pushed once for every time fp is among its children.
PlanParentsOf(rule, fp) ==
    LET keys == SortStr(DOMAIN rule.nodes)
        pushed[k \in 0..Len(keys)] ==
            IF k = 0 THEN <<>>
            ELSE pushed[k - 1] \o
                 [j \in 1..Len(SelectSeq(rule.nodes[keys[k]].children, LAMBDA c : c = fp)) |->
                     keys[k]]
    IN  pushed[Len(keys)]

\* build_rule_views: one RuleView.
RuleViewOf(rule, nodes_spec, fingerprint_to_node) ==
    LET parents(fp) == PlanParentsOf(rule, fp)
    IN  [text  |-> rule.text,
         root  |-> rule.root,
         nodes |-> [fp \in DOMAIN rule.nodes |->
            LET node_name == IF fp \in DOMAIN fingerprint_to_node
                             THEN Some(fingerprint_to_node[fp]) ELSE None
            IN  [fingerprint |-> fp,
                 node        |-> node_name,
                 label       |-> IF node_name.some /\ node_name.v \in DOMAIN nodes_spec
                                 THEN Some(nodes_spec[node_name.v].label) ELSE None,
                 children    |-> rule.nodes[fp].children,
                 parents     |-> parents(fp),
                 shared      |-> Len(parents(fp)) > 1]]]

build_rule_views(rules_spec, nodes_spec, fingerprint_to_node) ==
    [i \in 1..Len(rules_spec) |-> RuleViewOf(rules_spec[i], nodes_spec, fingerprint_to_node)]

\* build_report_data: Ok(ReportData) or the first error.  overflow_checks is
\* the build's setting of integer overflow checks: with them an overflowing
\* `+=` panics, without them it wraps.
BuildReportData(nodes_spec, roots, rules_spec, fingerprint_to_node, time, memory, overflow_checks) ==
    LET p0 == ReportPhase0(time, memory)
    IN  IF ~p0.ok THEN p0
        ELSE LET p1 == ReportPhase1(nodes_spec)
             IN  IF ~p1.ok THEN [ok |-> FALSE, kind |-> p1.kind, args |-> p1.args]
                 ELSE LET p3 == ReportPhase3Check(nodes_spec, time, memory)
                      IN  IF ~p3.ok THEN p3
                          ELSE IF /\ overflow_checks
                                  /\ AccumulatorOverflows(nodes_spec, time, memory)
                          THEN Err("panic", [msg |-> "attempt to add with overflow"])
                          ELSE LET nodes_view ==
                                     [name \in DOMAIN nodes_spec |->
                                        NameNodeViewOf(nodes_spec, name, time, memory)]
                               IN  [ok       |-> TRUE,
                                    roots    |-> ReportRoots(nodes_spec, roots),
                                    nodes    |-> nodes_view,
                                    rules    |-> build_rule_views(rules_spec, nodes_spec,
                                                                  fingerprint_to_node),
                                    totals   |-> TotalsOf(nodes_spec, nodes_view, time),
                                    warnings |-> ReportWarnings(nodes_spec,
                                                     SortStr(DOMAIN nodes_spec), 1, time)]

----------------------------------------------------------------------------
(* model::build_report_data: the aggregation over a single log.  A NodeSpec  *)
(* here has children instead of parents, and a rule.  The log is a           *)
(* LogIndex, whose rows carry their own addr (the key).                      *)

\* parents.get(name): the names that list `name` as a child, one occurrence
\* per listing, in iteration order of nodes_spec (ascending, so that the
\* following sort changes nothing).
RECURSIVE OldParentsLoop(_, _, _, _)
OldParentsLoop(nodes_spec, names, i, name) ==
    IF i > Len(names) THEN <<>>
    ELSE LET children == nodes_spec[names[i]].children
             listed   == {k \in 1..Len(children) : DecStr(children[k]) = name}
         IN  [k \in 1..Cardinality(listed) |-> names[i]]
             \o OldParentsLoop(nodes_spec, names, i + 1, name)

OldParents(nodes_spec, name) ==
    OldParentsLoop(nodes_spec, SortStr(DOMAIN nodes_spec), 1, name)

\* The primary parent is the first of the sorted parents.
OldPrimaryParent(nodes_spec, name) ==
    LET ps == OldParents(nodes_spec, name)
    IN  IF ps = <<>> THEN None ELSE Some(ps[1])

OldExtraParents(nodes_spec, name) ==
    LET ps == OldParents(nodes_spec, name)
    IN  IF ps = <<>> THEN <<>> ELSE SubSeq(ps, 2, Len(ps))

OldTreeChildren(nodes_spec, name) ==
    SortStr({child \in DOMAIN nodes_spec :
               OldPrimaryParent(nodes_spec, child) = Some(name)})

\* The provided roots plus every node without a primary parent, sorted, deduped.
OldRoots(nodes_spec, roots) ==
    SortStr(Range(roots) \cup
            {name \in DOMAIN nodes_spec : ~OldPrimaryParent(nodes_spec, name).some})

\* Mutant of SortByTimeDesc: the views are sorted by address only.
RECURSIVE SortByAddrOnly(_, _)
SortByAddrOnly(S, log) ==
    IF S = {} THEN <<>>
    ELSE LET first == CHOOSE x \in S : \A y \in S : x = y \/ SeqLess(x, y)
         IN  <<[addr            |-> first,
                op_name         |-> log[first].op_name,
                activations     |-> log[first].activations,
                total_active_ms |-> log[first].total_active_ms]>>
             \o SortByAddrOnly(S \ {first}, log)

\* operators.sort_by(total_active_ms desc, then addr asc) on one view per
\* address of S.
RECURSIVE SortByTimeDesc(_, _)
SortByTimeDesc(S, log) ==
    IF S = {} THEN <<>>
    ELSE LET first == CHOOSE x \in S : \A y \in S :
                         \/ log[x].total_active_ms > log[y].total_active_ms
                         \/ /\ log[x].total_active_ms = log[y].total_active_ms
                            /\ (x = y \/ SeqLess(x, y))
         IN  <<[addr            |-> first,
                op_name         |-> log[first].op_name,
                activations     |-> log[first].activations,
                total_active_ms |-> log[first].total_active_ms]>>
             \o SortByTimeDesc(S \ {first}, log)

\* The NameNodeView of one name: only the addresses found in the log are listed.
OldNameNodeViewOf(nodes_spec, name, log) ==
    LET spec  == nodes_spec[name]
        ops   == SortByTimeDesc(spec.operators \cap DOMAIN log, log)
    IN  [name            |-> name,
         label           |-> spec.label,
         block           |-> spec.block,
         fingerprint     |-> spec.fingerprint,
         tags            |-> spec.tags,
         rule            |-> spec.rule,
         children        |-> OldTreeChildren(nodes_spec, name),
         dag_children    |-> [k \in 1..Len(spec.children) |-> DecStr(spec.children[k])],
         extra_parents   |-> OldExtraParents(nodes_spec, name),
         self_activations     |-> U64Wrap(SumSeq([k \in 1..Len(ops) |-> ops[k].activations])),
         self_total_active_ms |-> SumSeq([k \in 1..Len(ops) |-> ops[k].total_active_ms]),
         operators       |-> ops]

\* The eprintln! warnings, in order: (name, addr) of every mapped addr that is
\* missing from the log.
OldWarnings(nodes_spec, log) == ReportWarnings(nodes_spec, SortStr(DOMAIN nodes_spec), 1, log)

OldTotalsOf(nodes_spec, nodes_view, log) ==
    LET names == SortStr(DOMAIN nodes_spec)
    IN  [names            |-> Cardinality(DOMAIN nodes_spec),
         operators_in_log |-> Cardinality(DOMAIN log),
         operators_mapped |->
             SumSeq([i \in 1..Len(names) |-> Len(nodes_view[names[i]].operators)]),
         total_mapped_ms  |->
             SumSeq([i \in 1..Len(names) |-> nodes_view[names[i]].self_total_active_ms]),
         total_mapped_activations |->
             U64Wrap(SumSeq([i \in 1..Len(names) |-> nodes_view[names[i]].self_activations]))]

\* build_rule_views of the single-source aggregation: as above, plus the
\* names of the rule that are not part of its plan tree.
OldRuleViewOf(rule, nodes_spec, fingerprint_to_node) ==
    LET view == RuleViewOf(rule, nodes_spec, fingerprint_to_node)
    IN  [text   |-> view.text,
         root   |-> view.root,
         nodes  |-> view.nodes,
         extras |-> SortStr({name \in DOMAIN nodes_spec :
                       /\ nodes_spec[name].rule = Some(rule.text)
                       /\ ~(/\ nodes_spec[name].fingerprint.some
                            /\ nodes_spec[name].fingerprint.v \in DOMAIN rule.nodes)})]

\* model::build_report_data: Ok(ReportData) or the first error.
OldBuildReportData(nodes_spec, roots, rules_spec, fingerprint_to_node, log, overflow_checks) ==
    LET p1 == ReportPhase1(nodes_spec)
    IN  IF ~p1.ok THEN [ok |-> FALSE, kind |-> p1.kind, args |-> p1.args]
        ELSE IF /\ overflow_checks
                /\ AccumulatorOverflows(nodes_spec, log, EmptyMap)
        THEN Err("panic", [msg |-> "attempt to add with overflow"])
        ELSE LET nodes_view ==
                   [name \in DOMAIN nodes_spec |-> OldNameNodeViewOf(nodes_spec, name, log)]
             IN  [ok       |-> TRUE,
                  roots    |-> OldRoots(nodes_spec, roots),
                  nodes    |-> nodes_view,
                  rules    |-> [i \in 1..Len(rules_spec) |->
                                  OldRuleViewOf(rules_spec[i], nodes_spec,
                                                fingerprint_to_node)],
                  totals   |-> OldTotalsOf(nodes_spec, nodes_view, log),
                  warnings |-> OldWarnings(nodes_spec, log)]

----------------------------------------------------------------------------
(* The report page (render/html.rs): renderGraph's layout.  DATA is the     *)
(* ReportData embedded in the page.                                         *)

\* String.prototype.toLowerCase on ASCII.
ToLower(s) == [k \in 1..Len(s) |-> IF s[k] \in 65..90 THEN s[k] + 32 ELSE s[k]]

StartsWith(s, prefix) ==
    Len(prefix) <= Len(s) /\ SubSeq(s, 1, Len(prefix)) = prefix

Includes(s, part) ==
    \E k \in 1..(Len(s) - Len(part) + 1) : SubSeq(s, k, k + Len(part) - 1) = part

IsDigit(c) == c \in 48..57

\* parseInt(s, 10) of a string that starts with a digit: the value of its
\* longest prefix of digits.
RECURSIVE ParseIntFrom(_, _)
ParseIntFrom(s, acc) ==
    IF s = <<>> \/ ~IsDigit(Head(s)) THEN acc
    ELSE ParseIntFrom(Tail(s), 10 * acc + (Head(s) - 48))

StrInput == <<105, 110, 112, 117, 116>>

StrStratum == <<115, 116, 114, 97, 116, 117, 109>>

StrInspect == <<105, 110, 115, 112, 101, 99, 116>>

\* b.match(/^stratum\s*(\d+)/): the digits after "stratum" and any
\* whitespace, or <<>> when there is no match.
StratumDigits(b) ==
    IF ~StartsWith(b, StrStratum) THEN <<>>
    ELSE LET rest == TrimStart(SubSeq(b, Len(StrStratum) + 1, Len(b)))
         IN  IF rest # <<>> /\ IsDigit(Head(rest)) THEN rest ELSE <<>>

\* blockOf: node.block || "other".
blockOf(node) == IF node.block # <<>> THEN node.block ELSE StrOther

\* blockRank of a (non-empty) block name.
blockRank(block) ==
    LET b == ToLower(block)
    IN  IF StartsWith(b, StrInput) THEN 0
        ELSE IF StratumDigits(b) # <<>> THEN 1 + ParseIntFrom(StratumDigits(b), 0)
        ELSE IF Includes(b, StrInspect) THEN 1000
        ELSE 500

\* Object.keys(DATA.nodes): the names are decimal u32 strings, which are
\* integer-like keys and come in ascending numeric order.
RECURSIVE SortByNumber(_)
SortByNumber(S) ==
    IF S = {} THEN <<>>
    ELSE LET m == CHOOSE x \in S : \A y \in S : ParseIntFrom(x, 0) <= ParseIntFrom(y, 0)
         IN <<m>> \o SortByNumber(S \ {m})

allNames(nodes) == SortByNumber(DOMAIN nodes)

\* childrenOf(name): dag_children is no field of NameNodeView, so the tree
\* children are taken; children that are no node are skipped.
childrenOf(nodes, name) ==
    SelectSeq(nodes[name].children, LAMBDA v : v \in DOMAIN nodes)

\* parents.get(v): the names u, in order of allNames, with v among childrenOf(u).
GraphParents(nodes, v) ==
    SelectSeq(allNames(nodes), LAMBDA u : v \in Range(childrenOf(nodes, u)))

\* indeg after the edge loop.
InDegree(nodes) == [v \in DOMAIN nodes |-> Len(GraphParents(nodes, v))]

\* One visit of Kahn's loop body for u: indeg of each child of u is
\* decremented in turn, and the children that reach zero are queued.
RECURSIVE KahnVisit(_, _, _, _)
KahnVisit(kids, k, q, indeg) ==
    IF k > Len(kids) THEN [q |-> q, indeg |-> indeg]
    ELSE LET v  == kids[k]
             nd == [indeg EXCEPT ![v] = @ - 1]
         IN  KahnVisit(kids, k + 1, IF nd[v] = 0 THEN Append(q, v) ELSE q, nd)

\* while (q.length) { u = q.shift(); topo.push(u); ... }
RECURSIVE KahnLoop(_, _, _, _)
KahnLoop(nodes, q, indeg, topo) ==
    IF q = <<>> THEN topo
    ELSE LET u    == Head(q)
             step == KahnVisit(childrenOf(nodes, u), 1, Tail(q), indeg)
         IN  KahnLoop(nodes, step.q, step.indeg, Append(topo, u))

\* The topological order with the rest left in the order of allNames.
TopoOrderUnsortedRest(nodes) ==
    LET names == allNames(nodes)
        q0    == SelectSeq(names, LAMBDA n : InDegree(nodes)[n] = 0)
        topo  == KahnLoop(nodes, q0, InDegree(nodes), <<>>)
    IN  topo \o SelectSeq(names, LAMBDA n : n \notin Range(topo))

\* The topological order, with the unresolved rest appended in sorted order.
TopoOrder(nodes) ==
    LET names == allNames(nodes)
        q0    == SelectSeq(names, LAMBDA n : InDegree(nodes)[n] = 0)
        topo  == KahnLoop(nodes, q0, InDegree(nodes), <<>>)
    IN  topo \o SortStr(DOMAIN nodes \ Range(topo))

Max(a, b) == IF a >= b THEN a ELSE b

\* The depth pass: in order of topo, depth(v) = max(depth(v), depth(p) + 1
\* for every parent p, blockRank(block(v))), on the depths so far.
RECURSIVE DepthLoop(_, _, _, _)
DepthLoop(nodes, topo, k, depth) ==
    IF k > Len(topo) THEN depth
    ELSE LET v  == topo[k]
             ps == GraphParents(nodes, v)
             d1 == IF ps = <<>> THEN depth[v]
                   ELSE Max(depth[v],
                            CHOOSE m \in {depth[ps[j]] + 1 : j \in 1..Len(ps)} :
                               \A j \in 1..Len(ps) : depth[ps[j]] + 1 <= m)
         IN  DepthLoop(nodes, topo, k + 1,
                       [depth EXCEPT ![v] = Max(d1, blockRank(blockOf(nodes[v])))])

\* depth after the rank pass.
DepthOf(nodes) ==
    DepthLoop(nodes, TopoOrder(nodes), 1,
              [n \in DOMAIN nodes |-> blockRank(blockOf(nodes[n]))])

\* layerKeys: the depths in use, ascending.
RECURSIVE SortInts(_)
SortInts(S) ==
    IF S = {} THEN <<>>
    ELSE LET m == CHOOSE x \in S : \A y \in S : x <= y
         IN <<m>> \o SortInts(S \ {m})

layerKeys(depth) == SortInts({depth[n] : n \in DOMAIN depth})

\* layers after "for (const list of layers.values()) list.sort()".
InitialLayers(depth) ==
    [d \in Range(layerKeys(depth)) |->
        SortStr({n \in DOMAIN depth : depth[n] = d})]

\* idxPrev.get(p) ?? 0: the 0-based position of p in the list, 0 when absent.
IndexIn(list, p) ==
    IF p \in Range(list) THEN (CHOOSE j \in 1..Len(list) : list[j] = p) - 1 ELSE 0

\* The barycenter of a name over its neighbours rel in the list other, as the
\* fraction sum / count; inf stands for Number.POSITIVE_INFINITY.
Barycenter(rel, other) ==
    [inf |-> rel = <<>>,
     sum |-> SumSeq([j \in 1..Len(rel) |-> IndexIn(other, rel[j])]),
     cnt |-> Len(rel)]

\* ba - bb < 0.
BaryLess(ba, bb) ==
    IF ba.inf THEN FALSE
    ELSE IF bb.inf THEN TRUE
    ELSE ba.sum * bb.cnt < bb.sum * ba.cnt

\* ba === bb.
BaryEqual(ba, bb) ==
    IF ba.inf \/ bb.inf THEN ba.inf /\ bb.inf
    ELSE ba.sum * bb.cnt = bb.sum * ba.cnt

\* cur.sort(comparator): by barycenter, ties by localeCompare of the names.
RECURSIVE BarySort(_, _)
BarySort(S, bary) ==
    IF S = {} THEN <<>>
    ELSE LET before(a, b) == \/ BaryLess(bary[a], bary[b])
                             \/ BaryEqual(bary[a], bary[b]) /\ SeqLess(a, b)
             m == CHOOSE a \in S : \A b \in S \ {a} : before(a, b)
         IN <<m>> \o BarySort(S \ {m}, bary)

\* barycenterSortDown from layer index i on.
RECURSIVE barycenterSortDown(_, _, _, _)
barycenterSortDown(nodes, keys, layers, i) ==
    IF i > Len(keys) THEN layers
    ELSE LET prev == layers[keys[i - 1]]
             bary == [n \in DOMAIN nodes |-> Barycenter(GraphParents(nodes, n), prev)]
         IN  barycenterSortDown(nodes, keys,
                [layers EXCEPT ![keys[i]] = BarySort(Range(@), bary)], i + 1)

\* barycenterSortUp from layer index i down.
RECURSIVE barycenterSortUp(_, _, _, _)
barycenterSortUp(nodes, keys, layers, i) ==
    IF i < 1 THEN layers
    ELSE LET next == layers[keys[i + 1]]
             bary == [n \in DOMAIN nodes |-> Barycenter(childrenOf(nodes, n), next)]
         IN  barycenterSortUp(nodes, keys,
                [layers EXCEPT ![keys[i]] = BarySort(Range(@), bary)], i - 1)

\* layers after down, up, down.
OrderedLayers(nodes, depth) ==
    LET keys == layerKeys(depth)
        l0 == InitialLayers(depth)
        l1 == barycenterSortDown(nodes, keys, l0, 2)
        l2 == barycenterSortUp(nodes, keys, l1, Len(keys) - 1)
    IN  barycenterSortDown(nodes, keys, l2, 2)

\* NODE: padX, padY, lineH, minW, maxW, minH.
NODE == [padX |-> 12, padY |-> 8, lineH |-> 16, minW |-> 140, maxW |-> 360, minH |-> 36]

Min(a, b) == IF a <= b THEN a ELSE b

\* measureTextPx: the canvas width of s in the 12px font, taken as CharPx
\* pixels for each character.
CharPx == 7

measureTextPx(s) == CharPx * Len(s)

\* String(text).split(/\s+/).filter(Boolean): the maximal runs of
\* non-whitespace characters, in order.
RECURSIVE Words(_, _, _)
Words(s, k, cur) ==
    IF k > Len(s) THEN (IF cur = <<>> THEN <<>> ELSE <<cur>>)
    ELSE IF IsWs(s[k])
         THEN (IF cur = <<>> THEN <<>> ELSE <<cur>>) \o Words(s, k + 1, <<>>)
         ELSE Words(s, k + 1, Append(cur, s[k]))

\* The loop of wrapLines from word i on, with the current line cur.
RECURSIVE WrapLoop(_, _, _, _)
WrapLoop(words, i, cur, maxContentW) ==
    IF i > Len(words) THEN <<cur>>
    ELSE LET next == cur \o <<32>> \o words[i]
         IN  IF measureTextPx(next) <= maxContentW
             THEN WrapLoop(words, i + 1, next, maxContentW)
             ELSE <<cur>> \o WrapLoop(words, i + 1, words[i], maxContentW)

wrapLines(text, maxContentW) ==
    LET words == Words(text, 1, <<>>)
    IN  IF words = <<>> THEN << <<>> >> ELSE WrapLoop(words, 2, words[1], maxContentW)

MaxOfSeq(s, least) ==
    IF s = <<>> THEN least
    ELSE Max(least, CHOOSE m \in Range(s) : \A x \in Range(s) : x <= m)

\* nodeBox(label): width, height and wrapped lines.
nodeBox(label) ==
    LET maxContentW == NODE.maxW - 2 * NODE.padX
        lines    == wrapLines(label, maxContentW)
        contentW == Min(maxContentW,
                        MaxOfSeq([k \in 1..Len(lines) |-> measureTextPx(lines[k])], 0))
    IN  [w |-> Max(NODE.minW, Min(NODE.maxW, contentW + 2 * NODE.padX)),
         h |-> Max(NODE.minH, Len(lines) * NODE.lineH + 2 * NODE.padY),
         lines |-> lines]

\* nodeLabelFor(name): n.label || name.
nodeLabelFor(nodes, name) == IF nodes[name].label # <<>> THEN nodes[name].label ELSE name

layerGap == 120

BLOCK_PAD == 28

BLOCK_GAP == 64

\* The layout width: max(960, maxLayerCount * 220).
LayoutWidth(keys, layers) ==
    Max(960, 220 * MaxOfSeq([i \in 1..Len(keys) |-> Len(layers[keys[i]])], 1))

\* pos before the blocks are separated: x = (idx + 1) * width / (n + 1), kept
\* as a fraction, and y = 40 + li * layerGap, for the idx-th name of the li-th
\* layer.
InitialPos(keys, layers) ==
    LET width  == LayoutWidth(keys, layers)
        li(n)  == (CHOOSE i \in 1..Len(keys) : n \in Range(layers[keys[i]])) - 1
        list(n) == layers[keys[li(n) + 1]]
    IN  [n \in UNION {Range(layers[d]) : d \in DOMAIN layers} |->
            [x |-> [num |-> (IndexIn(list(n), n) + 1) * width,
                    den |-> Len(list(n)) + 1],
             y |-> 40 + li(n) * layerGap]]

\* uniqueBlocksInOrder: by blockRank, ties by localeCompare.
RECURSIVE SortBlocks(_)
SortBlocks(S) ==
    IF S = {} THEN <<>>
    ELSE LET before(a, b) == \/ blockRank(a) < blockRank(b)
                             \/ blockRank(a) = blockRank(b) /\ SeqLess(a, b)
             m == CHOOSE a \in S : \A b \in S \ {a} : before(a, b)
         IN <<m>> \o SortBlocks(S \ {m})

uniqueBlocksInOrder(nodes) == SortBlocks({blockOf(nodes[n]) : n \in DOMAIN nodes})

\* nodeHalfH(name): h / 2.
nodeHalfH(nodes, name) == nodeBox(nodeLabelFor(nodes, name)).h \div 2

\* The block separation loop from block i on: prev is prevMaxY, with
\* prev.none for -Infinity.
RECURSIVE SeparateBlocks(_, _, _, _, _)
SeparateBlocks(nodes, blocks, i, pos, prev) ==
        IF i > Len(blocks) THEN pos
        ELSE LET names == {n \in DOMAIN nodes : blockOf(nodes[n]) = blocks[i]}
                 minY  == CHOOSE m \in {pos[n].y - nodeHalfH(nodes, n) - BLOCK_PAD : n \in names} :
                             \A n \in names : m <= pos[n].y - nodeHalfH(nodes, n) - BLOCK_PAD
                 maxY  == CHOOSE m \in {pos[n].y + nodeHalfH(nodes, n) + BLOCK_PAD : n \in names} :
                             \A n \in names : m >= pos[n].y + nodeHalfH(nodes, n) + BLOCK_PAD
                 shift == ~prev.none /\ minY < prev.v + BLOCK_GAP
                 delta == IF shift THEN prev.v + BLOCK_GAP - minY ELSE 0
                 moved == [n \in DOMAIN nodes |->
                             IF n \in names THEN [pos[n] EXCEPT !.y = @ + delta] ELSE pos[n]]
                 top   == IF prev.none THEN maxY + delta ELSE Max(prev.v, maxY + delta)
             IN  SeparateBlocks(nodes, blocks, i + 1, moved, [none |-> FALSE, v |-> top])

\* pos left as the positioning step made it.
FinalPosUnseparated(nodes, pos) == pos

\* pos after the blocks are separated.
FinalPos(nodes, pos) ==
    SeparateBlocks(nodes, uniqueBlocksInOrder(nodes), 1, pos, [none |-> TRUE, v |-> 0])

\* boxByName: the box of every name, around its position.
boxByName(nodes, pos) ==
    [n \in DOMAIN nodes |->
        LET b == nodeBox(nodeLabelFor(nodes, n))
        IN  [w |-> b.w, h |-> b.h, lines |-> b.lines,
             cx |-> pos[n].x, cy |-> pos[n].y]]

\* What one pass of renderGraph lays out from DATA: rank, layers in order and
\* boxes.
GraphLayout(data) ==
    LET depth  == DepthOf(data.nodes)
        keys   == layerKeys(depth)
        layers == OrderedLayers(data.nodes, depth)
        pos    == FinalPos(data.nodes, InitialPos(keys, layers))
    IN  [depth     |-> depth,
         layerKeys |-> keys,
         layers    |-> layers,
         boxByName |-> boxByName(data.nodes, pos)]

----------------------------------------------------------------------------
(* The report page's script (render/html.rs): state, renderGraph's element  *)
(* and its listeners, selectNode and the controls.                          *)

\* Numbers of state.graph as fractions num / den in lowest terms, den > 0.
RECURSIVE Gcd(_, _)
Gcd(a, b) == IF b = 0 THEN a ELSE Gcd(b, a % b)

Abs(n) == IF n < 0 THEN -n ELSE n

Frac(n, d) ==
    LET g == Gcd(Abs(n), Abs(d))
        sgn == IF d < 0 THEN -1 ELSE 1
    IN  [num |-> sgn * (n \div g), den |-> sgn * (d \div g)]

FracOf(n) == [num |-> n, den |-> 1]

FracAdd(a, b) == Frac(a.num * b.den + b.num * a.den, a.den * b.den)

FracSub(a, b) == Frac(a.num * b.den - b.num * a.den, a.den * b.den)

FracMul(a, b) == Frac(a.num * b.num, a.den * b.den)

FracDiv(a, b) == Frac(a.num * b.den, a.den * b.num)

FracLess(a, b) == a.num * b.den < b.num * a.den

FracMax(a, b) == IF FracLess(a, b) THEN b ELSE a

FracMin(a, b) == IF FracLess(b, a) THEN b ELSE a

\* Passes of renderGraph and pan or zoom updates that are explored.
MaxPasses == 3

MaxGestures == 2

\* Search texts typed: none and "1".
SearchTexts == {<<>>, <<49>>}

\* e.button: primary or secondary.
Buttons == {0, 2}

\* Pointer and cursor points.
ClientPoints == {<<0, 0>>, <<40, 20>>}

\* Math.exp(-deltaY * 0.001) of the wheel events explored.
WheelFactors == {Frac(1, 100), FracOf(8), FracOf(1)}

\* The state object of the script, as declared.
InitialState ==
    [expanded |-> {},
     selected |-> None,
     search   |-> <<>>,
     view     |-> "tree",
     graph    |-> [tx |-> FracOf(0), ty |-> FracOf(0), scale |-> FracOf(1)]]

\* #graphView before any renderGraph: no svg.
NoSvg ==
    [present |-> FALSE, layout |-> <<>>, selected |-> None,
     transform |-> InitialState.graph, dragging |-> FALSE, lastX |-> 0, lastY |-> 0]

\* Mutant of renderGraph: the selected node is ranked first.
renderGraphSelectedFirst(data, st) ==
    LET l == GraphLayout(data)
    IN  [present   |-> TRUE,
         layout    |-> [l EXCEPT !.depth =
                          [n \in DOMAIN l.depth |->
                              IF st.selected = Some(n) THEN 0 ELSE l.depth[n]]],
         selected  |-> st.selected,
         transform |-> st.graph,
         dragging  |-> FALSE,
         lastX     |-> 0,
         lastY     |-> 0]

\* renderGraph(): a new #graphSvg laid out from DATA, with the selected class
\* on state.selected, the viewport transform of state.graph, and the pan
\* listeners' closure (dragging, lastX, lastY) in its initial values.
renderGraph(data, st) ==
    [present   |-> TRUE,
     layout    |-> GraphLayout(data),
     selected  |-> st.selected,
     transform |-> st.graph,
     dragging  |-> FALSE,
     lastX     |-> 0,
     lastY     |-> 0]

\* DATA: the ReportData written into the page.
DATA == report

\* nodeMatches(name, node) under the search text of st.
nodeMatches(st, name, node) ==
    \/ st.search = <<>>
    \/ Includes(ToLower(name), ToLower(st.search))
    \/ Includes(ToLower(node.label), ToLower(st.search))

\* The rows of #tree after renderTree: the names that match the search.
TreeRows(data, st) ==
    {name \in DOMAIN data.nodes : nodeMatches(st, name, data.nodes[name])}

\* One renderGraph pass replaces the svg of #graphView.
GraphPass(st) ==
    /\ passes < MaxPasses
    /\ svg' = renderGraph(DATA, st)
    /\ prevSvg' = svg
    /\ passes' = passes + 1

\* Mutant of selectNode: the pan and zoom are reset with the selection.
selectNodeResetView(name) ==
    /\ state' = [state EXCEPT !.selected = Some(name), !.graph = InitialState.graph]
    /\ GraphPass(state')
    /\ UNCHANGED <<page, gestures, wheelAt>>

\* selectNode(name): sets the selection, fills the detail pane, renders the
\* tree and renders the graph.
selectNode(name) ==
    /\ state' = [state EXCEPT !.selected = Some(name)]
    /\ GraphPass(state')
    /\ UNCHANGED <<page, gestures, wheelAt>>

\* The page's script runs: renderSummary, renderTree and, with a root,
\* selectNode(DATA.roots[0]).
Load ==
    /\ pc = "reported"
    /\ page = "closed"
    /\ page' = "open"
    /\ IF DATA.roots # <<>>
       THEN /\ state' = [InitialState EXCEPT !.selected = Some(DATA.roots[1])]
            /\ GraphPass(state')
       ELSE /\ state' = InitialState
            /\ UNCHANGED <<svg, prevSvg, passes>>
    /\ UNCHANGED <<gestures, wheelAt>>
    /\ UNCHANGED <<opsVars, dagVars>>

\* row.onclick of a row of #tree.
ClickRow ==
    /\ page = "open"
    /\ \E name \in TreeRows(DATA, state) : selectNode(name)
    /\ UNCHANGED <<opsVars, dagVars>>

\* The click listener of the svg, on a .g-node or elsewhere.
ClickGraph ==
    /\ page = "open"
    /\ state.view = "graph"
    /\ svg.present
    /\ \E onNode \in BOOLEAN :
          IF onNode
          THEN \E name \in DOMAIN svg.layout.boxByName : selectNode(name)
          ELSE UNCHANGED uiVars
    /\ UNCHANGED <<opsVars, dagVars>>

\* The input listener of #search.
Search ==
    /\ page = "open"
    /\ \E text \in SearchTexts : state' = [state EXCEPT !.search = text]
    /\ UNCHANGED <<page, svg, prevSvg, passes, gestures, wheelAt>>
    /\ UNCHANGED <<opsVars, dagVars>>

expandAll ==
    /\ page = "open"
    /\ state' = [state EXCEPT !.expanded =
                    @ \cup {name \in DOMAIN DATA.nodes : DATA.nodes[name].children # <<>>}]
    /\ UNCHANGED <<page, svg, prevSvg, passes, gestures, wheelAt>>
    /\ UNCHANGED <<opsVars, dagVars>>

collapseAll ==
    /\ page = "open"
    /\ state' = [state EXCEPT !.expanded = {}]
    /\ UNCHANGED <<page, svg, prevSvg, passes, gestures, wheelAt>>
    /\ UNCHANGED <<opsVars, dagVars>>

\* #tabTree.onclick.
TabTree ==
    /\ page = "open"
    /\ state' = [state EXCEPT !.view = "tree"]
    /\ UNCHANGED <<page, svg, prevSvg, passes, gestures, wheelAt>>
    /\ UNCHANGED <<opsVars, dagVars>>

\* #tabGraph.onclick: shows the graph pane and renders the graph.
TabGraph ==
    /\ page = "open"
    /\ state' = [state EXCEPT !.view = "graph"]
    /\ GraphPass(state')
    /\ UNCHANGED <<page, gestures, wheelAt>>
    /\ UNCHANGED <<opsVars, dagVars>>

\* The svg is on screen and takes pointer and wheel events.
SvgOnScreen == page = "open" /\ state.view = "graph" /\ svg.present

\* The pointerdown listener at (x, y): starts a pan unless the button is
\* not the primary one or the target is inside a .g-node.  The listeners
\* give the state and the svg's closure they leave.
pointerdown(st, el, button, onNode, pt) ==
    [state |-> st,
     svg   |-> IF button # 0 \/ onNode THEN el
               ELSE [el EXCEPT !.dragging = TRUE, !.lastX = pt[1], !.lastY = pt[2]]]

\* Mutant of pointermove: the pan follows the pointer whether dragging or not.
pointermoveAlways(st, el, pt) ==
    LET dx == pt[1] - el.lastX
        dy == pt[2] - el.lastY
        g  == [st.graph EXCEPT
                 !.tx = FracAdd(@, FracDiv(FracOf(dx), st.graph.scale)),
                 !.ty = FracAdd(@, FracDiv(FracOf(dy), st.graph.scale))]
    IN  [state |-> [st EXCEPT !.graph = g],
         svg   |-> [el EXCEPT !.lastX = pt[1], !.lastY = pt[2], !.transform = g]]

\* The pointermove listener at (x, y): while dragging, pans by the movement
\* divided by the scale and applies the transform.
pointermove(st, el, pt) ==
    IF ~el.dragging THEN [state |-> st, svg |-> el]
    ELSE LET dx == pt[1] - el.lastX
             dy == pt[2] - el.lastY
             g  == [st.graph EXCEPT
                      !.tx = FracAdd(@, FracDiv(FracOf(dx), st.graph.scale)),
                      !.ty = FracAdd(@, FracDiv(FracOf(dy), st.graph.scale))]
         IN  [state |-> [st EXCEPT !.graph = g],
              svg   |-> [el EXCEPT !.lastX = pt[1], !.lastY = pt[2], !.transform = g]]

\* The pointerup listener.
pointerup(st, el) == [state |-> st, svg |-> [el EXCEPT !.dragging = FALSE]]

\* The pointercancel listener.
pointercancel(st, el) == [state |-> st, svg |-> [el EXCEPT !.dragging = FALSE]]

PointerDown ==
    /\ SvgOnScreen
    /\ \E button \in Buttons, onNode \in BOOLEAN, pt \in ClientPoints :
          LET after == pointerdown(state, svg, button, onNode, pt)
          IN  /\ state' = after.state
              /\ svg' = after.svg
    /\ UNCHANGED <<page, prevSvg, passes, gestures, wheelAt>>
    /\ UNCHANGED <<opsVars, dagVars>>

PointerMove ==
    /\ SvgOnScreen
    /\ \E pt \in ClientPoints :
          LET after == pointermove(state, svg, pt)
          IN  IF after.state = state /\ after.svg = svg
              THEN UNCHANGED <<state, svg, gestures>>
              ELSE /\ gestures < MaxGestures
                   /\ state' = after.state
                   /\ svg' = after.svg
                   /\ gestures' = gestures + 1
    /\ UNCHANGED <<page, prevSvg, passes, wheelAt>>
    /\ UNCHANGED <<opsVars, dagVars>>

PointerUp ==
    /\ SvgOnScreen
    /\ LET after == pointerup(state, svg)
       IN  /\ state' = after.state
           /\ svg' = after.svg
    /\ UNCHANGED <<page, prevSvg, passes, gestures, wheelAt>>
    /\ UNCHANGED <<opsVars, dagVars>>

PointerCancel ==
    /\ SvgOnScreen
    /\ LET after == pointercancel(state, svg)
       IN  /\ state' = after.state
           /\ svg' = after.svg
    /\ UNCHANGED <<page, prevSvg, passes, gestures, wheelAt>>
    /\ UNCHANGED <<opsVars, dagVars>>

\* The bounds of the zoom scale: 0.2 and 4.0.
MinScale == Frac(1, 5)

MaxScale == FracOf(4)

\* Mutant of Wheel: the new scale is not clamped.
WheelNoClamp ==
    /\ SvgOnScreen
    /\ \E factor \in WheelFactors, cursor \in ClientPoints :
          LET oldScale == state.graph.scale
              newScale == FracMul(oldScale, factor)
              k        == FracDiv(newScale, oldScale)
              toward(t, c) == FracAdd(t, FracMul(FracSub(FracOf(c), t), FracSub(FracOf(1), k)))
              g        == [tx    |-> toward(state.graph.tx, cursor[1]),
                           ty    |-> toward(state.graph.ty, cursor[2]),
                           scale |-> newScale]
          IN  IF newScale = oldScale THEN UNCHANGED <<state, svg, gestures, wheelAt>>
              ELSE /\ gestures < MaxGestures
                   /\ state' = [state EXCEPT !.graph = g]
                   /\ svg' = [svg EXCEPT !.transform = g]
                   /\ gestures' = gestures + 1
                   /\ wheelAt' = cursor
    /\ UNCHANGED <<page, prevSvg, passes>>
    /\ UNCHANGED <<opsVars, dagVars>>

\* Mutant of Wheel: the scale changes and the pan offset stays.
WheelNoAnchor ==
    /\ SvgOnScreen
    /\ \E factor \in WheelFactors, cursor \in ClientPoints :
          LET oldScale == state.graph.scale
              newScale == FracMax(MinScale, FracMin(MaxScale, FracMul(oldScale, factor)))
              g        == [state.graph EXCEPT !.scale = newScale]
          IN  IF newScale = oldScale THEN UNCHANGED <<state, svg, gestures, wheelAt>>
              ELSE /\ gestures < MaxGestures
                   /\ state' = [state EXCEPT !.graph = g]
                   /\ svg' = [svg EXCEPT !.transform = g]
                   /\ gestures' = gestures + 1
                   /\ wheelAt' = cursor
    /\ UNCHANGED <<page, prevSvg, passes>>
    /\ UNCHANGED <<opsVars, dagVars>>

\* wheel with factor = Math.exp(-deltaY * 0.001) at the cursor point
\* (x, y) of the svg's coordinates.
Wheel ==
    /\ SvgOnScreen
    /\ \E factor \in WheelFactors, cursor \in ClientPoints :
          LET oldScale == state.graph.scale
              newScale == FracMax(MinScale, FracMin(MaxScale, FracMul(oldScale, factor)))
              k        == FracDiv(newScale, oldScale)
              toward(t, c) == FracAdd(t, FracMul(FracSub(FracOf(c), t), FracSub(FracOf(1), k)))
              g        == [tx    |-> toward(state.graph.tx, cursor[1]),
                           ty    |-> toward(state.graph.ty, cursor[2]),
                           scale |-> newScale]
          IN  IF newScale = oldScale THEN UNCHANGED <<state, svg, gestures, wheelAt>>
              ELSE /\ gestures < MaxGestures
                   /\ state' = [state EXCEPT !.graph = g]
                   /\ svg' = [svg EXCEPT !.transform = g]
                   /\ gestures' = gestures + 1
                   /\ wheelAt' = cursor
    /\ UNCHANGED <<page, prevSvg, passes>>
    /\ UNCHANGED <<opsVars, dagVars>>

\* No page is open.
UiIdle ==
    /\ page = "closed"
    /\ state = InitialState
    /\ svg = NoSvg
    /\ prevSvg = NoSvg
    /\ passes = 0
    /\ gestures = 0
    /\ wheelAt = <<>>

\* The events of the open page.
PageNext ==
    \/ Load
    \/ ClickRow
    \/ ClickGraph
    \/ Search
    \/ expandAll
    \/ collapseAll
    \/ TabTree
    \/ TabGraph
    \/ PointerDown
    \/ PointerMove
    \/ PointerUp
    \/ PointerCancel
    \/ Wheel

----------------------------------------------------------------------------
(* main as a state machine: validate, then aggregate.                      *)

NoResult == [ok |-> FALSE, kind |-> "none", args |-> <<>>]

\* main, step 1: let validated = ops_spec.validate_and_build()?
Validate ==
    /\ pc = "start"
    /\ out' = ValidateAndBuild(rawNodes, rawRules)
    /\ pc' = IF out'.ok THEN "validated" ELSE "failed"
    /\ UNCHANGED <<rawNodes, rawRules, timeIdx, memIdx, report, oldNodes, oldReport>>
    /\ UNCHANGED dagVars
    /\ UNCHANGED uiVars

\* main, steps 2-4: re-key by name and call view::build_report_data(...)?
Aggregate ==
    /\ pc = "validated"
    /\ \E overflow_checks \in BOOLEAN :
          report' = BuildReportData(NodesByName(out.nodes), RootNames(out.roots),
                                    out.rules, FingerprintToName(out.fingerprint_to_node),
                                    timeIdx, memIdx, overflow_checks)
    /\ pc' = IF report'.ok THEN "reported" ELSE "failed"
    /\ UNCHANGED <<rawNodes, rawRules, timeIdx, memIdx, out, oldNodes, oldReport>>
    /\ UNCHANGED dagVars
    /\ UNCHANGED uiVars

\* The single-source pipeline, run once main has ended: model::build_report_data
\* over the nodes of a rule-less ops.json (roots: the names no node lists as a
\* child) and the log.
AggregateLog ==
    /\ pc \in {"reported", "failed"}
    /\ oldNodes # EmptyMap
    /\ oldReport = NoResult
    /\ \E overflow_checks \in BOOLEAN :
          oldReport' = OldBuildReportData(oldNodes,
                           SortStr({n \in DOMAIN oldNodes : OldParents(oldNodes, n) = <<>>}),
                           <<>>, EmptyMap, timeIdx, overflow_checks)
    /\ UNCHANGED <<pc, rawNodes, rawRules, timeIdx, memIdx, out, report, oldNodes>>
    /\ UNCHANGED dagVars
    /\ UNCHANGED uiVars

NextAgg == Validate \/ Aggregate \/ AggregateLog

Next == Validate \/ Aggregate

----------------------------------------------------------------------------
(* DagSpec::validate_and_build (name DAG), with dfs as an explicit machine. *)

\* Steps 1-2: unique node names, at least one node, edges between known nodes.
DagCheckNodesEdges(spec) ==
    LET ns    == spec.nodes
        es    == spec.edges
        dups  == {j \in 1..Len(ns) : \E i \in 1..(j - 1) : ns[i] = ns[j]}
        names == Range(ns)
        badE  == {k \in 1..Len(es) : es[k][1] \notin names \/ es[k][2] \notin names}
    IN  IF dups # {}
        THEN Err("duplicate_name",
                 [name |-> ns[CHOOSE x \in dups : \A y \in dups : x <= y]])
        ELSE IF ns = <<>> THEN Err("no_nodes", [name |-> <<>>])
        ELSE IF badE # {}
        THEN LET k == CHOOSE x \in badE : \A y \in badE : x <= y
             IN  IF es[k][1] \notin names
                 THEN Err("unknown_src", [name |-> es[k][1]])
                 ELSE Err("unknown_dst", [name |-> es[k][2]])
        ELSE [ok |-> TRUE]

\* children.get(v): the destinations of v's edges, in edge order.
RECURSIVE DagKids(_, _)
DagKids(es, v) ==
    IF es = <<>> THEN <<>>
    ELSE (IF Head(es)[1] = v THEN <<Head(es)[2]>> ELSE <<>>) \o DagKids(Tail(es), v)

\* Step 3: the declared roots if any (each must be a node), else the nodes
\* without parents in name order; an empty result is an error.
DagComputeRoots(spec) ==
    LET names  == Range(spec.nodes)
        rs     == spec.roots
        badR   == {k \in 1..Len(rs) : rs[k] \notin names}
        hasPar == {spec.edges[k][2] : k \in 1..Len(spec.edges)}
        roots  == IF rs # <<>> THEN rs ELSE SortStr(names \ hasPar)
    IN  IF rs # <<>> /\ badR # {}
        THEN Err("unknown_root",
                 [name |-> rs[CHOOSE x \in badR : \A y \in badR : x <= y]])
        ELSE IF roots = <<>> THEN Err("no_roots", [name |-> <<>>])
        ELSE [ok |-> TRUE, roots |-> roots]

\* Mutant of CyclePath: the node found in progress is not pushed.
CyclePathNoPush(stk, v) == stk

\* The path reported on a cycle: the stack with the repeated node pushed.
CyclePath(stk, v) == Append(stk, v)

\* The state after dfs(v, ...) has been entered with call stack `base` and
\* path `stk`: an immediate return on a Perm mark, the cycle error on a Temp
\* mark (the active calls are kept as they were when the error was built),
\* a new active call otherwise.
DfsEnter(v, base, stk) ==
    IF v \in DOMAIN marks /\ marks[v] = "Perm"
    THEN /\ frames' = base
         /\ stack' = stk
         /\ UNCHANGED <<marks, dagOut, dpc>>
    ELSE IF v \in DOMAIN marks /\ marks[v] = "Temp"
    THEN /\ stack' = CyclePath(stk, v)
         /\ dagOut' = Err("cycle", [path |-> stack', root |-> dagRoots[rootIdx]])
         /\ dpc' = "failed"
         /\ frames' = base
         /\ UNCHANGED marks
    ELSE /\ marks' = MapPut(marks, v, "Temp")
         /\ stack' = Append(stk, v)
         /\ frames' = Append(base, [v |-> v, k |-> 1])
         /\ UNCHANGED <<dagOut, dpc>>

\* Steps 1-3.
DagValidate ==
    /\ dpc = "start"
    /\ LET c == DagCheckNodesEdges(dagSpec)
           r == DagComputeRoots(dagSpec)
       IN  IF ~c.ok THEN /\ dagOut' = c
                         /\ dpc' = "failed"
                         /\ UNCHANGED dagRoots
           ELSE IF ~r.ok THEN /\ dagOut' = r
                              /\ dpc' = "failed"
                              /\ UNCHANGED dagRoots
           ELSE /\ dagRoots' = r.roots
                /\ dpc' = "dfs"
                /\ UNCHANGED dagOut
    /\ UNCHANGED <<dagSpec, rootIdx, marks, stack, frames>>
    /\ UNCHANGED opsVars
    /\ UNCHANGED uiVars

\* Step 4, loop body: stack.clear(); dfs(r, ...).  A call that returns at
\* once (Perm) moves the root loop on.
DfsRoot ==
    /\ dpc = "dfs"
    /\ frames = <<>>
    /\ rootIdx <= Len(dagRoots)
    /\ LET v == dagRoots[rootIdx]
       IN  /\ DfsEnter(v, <<>>, <<>>)
           /\ rootIdx' = IF v \in DOMAIN marks /\ marks[v] = "Perm"
                         THEN rootIdx + 1 ELSE rootIdx
    /\ UNCHANGED <<dagSpec, dagRoots>>
    /\ UNCHANGED opsVars
    /\ UNCHANGED uiVars

\* dfs, loop `for k in kids`: the innermost call calls dfs on its next kid.
DfsKid ==
    /\ dpc = "dfs"
    /\ frames # <<>>
    /\ LET top  == frames[Len(frames)]
           kids == DagKids(dagSpec.edges, top.v)
       IN  /\ top.k <= Len(kids)
           /\ DfsEnter(kids[top.k],
                       [frames EXCEPT ![Len(frames)] = [v |-> top.v, k |-> top.k + 1]],
                       stack)
    /\ UNCHANGED <<dagSpec, dagRoots, rootIdx>>
    /\ UNCHANGED opsVars
    /\ UNCHANGED uiVars

\* dfs, after the loop: stack.pop(); marks.insert(v, Perm); return.  The
\* return of the outermost call moves the root loop on.
DfsReturn ==
    /\ dpc = "dfs"
    /\ frames # <<>>
    /\ LET top  == frames[Len(frames)]
           kids == DagKids(dagSpec.edges, top.v)
       IN  /\ top.k > Len(kids)
           /\ stack' = SubSeq(stack, 1, Len(stack) - 1)
           /\ marks' = MapPut(marks, top.v, "Perm")
           /\ frames' = SubSeq(frames, 1, Len(frames) - 1)
           /\ rootIdx' = IF Len(frames) = 1 THEN rootIdx + 1 ELSE rootIdx
    /\ UNCHANGED <<dagSpec, dagRoots, dagOut, dpc>>
    /\ UNCHANGED opsVars
    /\ UNCHANGED uiVars

\* All roots done: Ok(NameDag).
DagFinish ==
    /\ dpc = "dfs"
    /\ frames = <<>>
    /\ rootIdx > Len(dagRoots)
    /\ dagOut' = [ok |-> TRUE, roots |-> dagRoots]
    /\ dpc' = "done"
    /\ UNCHANGED <<dagSpec, dagRoots, rootIdx, marks, stack, frames>>
    /\ UNCHANGED opsVars
    /\ UNCHANGED uiVars

DagNext == DagValidate \/ DfsRoot \/ DfsKid \/ DfsReturn \/ DagFinish

\* The name-DAG validator is not running.
DagIdle ==
    /\ dagSpec = [nodes |-> <<>>, edges |-> <<>>, roots |-> <<>>]
    /\ dpc = "idle"
    /\ dagRoots = <<>>
    /\ rootIdx = 1
    /\ marks = EmptyMap
    /\ stack = <<>>
    /\ frames = <<>>
    /\ dagOut = NoResult

\* The single-source aggregation is not running.
OldIdle ==
    /\ oldNodes = EmptyMap
    /\ oldReport = NoResult

\* The ops pipeline is not running.
OpsIdle ==
    /\ pc = "idle"
    /\ rawNodes = <<>>
    /\ rawRules = <<>>
    /\ timeIdx = EmptyMap
    /\ memIdx = EmptyMap
    /\ out = NoResult
    /\ report = NoResult
    /\ OldIdle

----------------------------------------------------------------------------
(* Inputs.                                                                 *)

\* Sequences over S of length at most n.
SeqsUpTo(S, n) == UNION {[1..k -> S] : k \in 0..n}

RawNode(id, block, fingerprint, parents, operators) ==
    [id |-> id, name |-> <<110>>, block |-> block, fingerprint |-> fingerprint,
     tags |-> <<>>, operators |-> operators, parents |-> parents]

\* Topologies: up to MaxNodes raw nodes over three ids (one of two digits, so
\* that the string order of ids differs from the numeric one), no fingerprints.
MaxNodes == 3

NodeIds == {2, 10, 11}

ParentVecs == {<<>>, <<2>>, <<10>>, <<11>>, <<10, 2>>, <<11, 11>>}

TopoNodes == {RawNode(id, None, None, ps, <<>>) : id \in NodeIds, ps \in ParentVecs}

InitTopo ==
    /\ pc = "start"
    /\ rawNodes \in SeqsUpTo(TopoNodes, MaxNodes)
    /\ rawRules = <<>>
    /\ timeIdx = EmptyMap
    /\ memIdx = EmptyMap
    /\ out = NoResult
    /\ report = NoResult
    /\ OldIdle
    /\ DagIdle
    /\ UiIdle

SpecTopo == InitTopo /\ [][Next]_vars

\* Fingerprinted nodes: up to MaxFpNodes root nodes with ids 1, 2, ..., each
\* with a block (absent, "other" or "b") and a raw fingerprint (absent, " ",
\* "x", "x " or "y"), against a few rule lists over "x" and "y".
MaxFpNodes == 3

StrX == <<120>>

StrY == <<121>>

FpBlocks == {None, Some(StrOther), Some(<<98>>)}

FpRaw == {None, Some(<<32>>), Some(StrX), Some(<<120, 32>>), Some(StrY)}

PlanNode(fingerprint, parents) == [fingerprint |-> fingerprint, parents |-> parents]

Rule(plan_tree) == [text |-> <<114>>, plan_tree |-> plan_tree]

FpRuleLists ==
    {<<>>,
     <<Rule(<<PlanNode(StrX, <<>>)>>)>>,
     <<Rule(<<PlanNode(StrX, <<>>), PlanNode(StrY, <<StrX>>)>>)>>,
     <<Rule(<<PlanNode(StrX, <<>>)>>), Rule(<<PlanNode(StrY, <<>>)>>)>>}

InitFp ==
    /\ pc = "start"
    /\ \E n \in 1..MaxFpNodes :
         \E attrs \in [1..n -> FpBlocks \X FpRaw] :
            rawNodes = [i \in 1..n |-> RawNode(i, attrs[i][1], attrs[i][2], <<>>, <<>>)]
    /\ rawRules \in FpRuleLists
    /\ timeIdx = EmptyMap
    /\ memIdx = EmptyMap
    /\ out = NoResult
    /\ report = NoResult
    /\ OldIdle
    /\ DagIdle
    /\ UiIdle

SpecFp == InitFp /\ [][Next]_vars

\* Plan trees: three nodes fingerprinted "x", "y" and "z", against one rule
\* whose plan tree has up to MaxPlan entries (raw fingerprint "x", "x ", "y"
\* or "z"; parents a list over "x", "y"), optionally followed by a second rule.
MaxPlan == 3

StrZ == <<122>>

PlanNodes ==
    <<RawNode(2, None, Some(StrX), <<>>, <<>>),
      RawNode(10, None, Some(StrY), <<2>>, <<>>),
      RawNode(11, None, Some(StrZ), <<2, 10>>, <<>>)>>

PlanEntries ==
    {PlanNode(fp, ps) : fp \in {StrX, <<120, 32>>, StrY, StrZ},
                        ps \in {<<>>, <<StrX>>, <<StrY>>, <<StrY, StrX>>}}

SecondRules == {<<>>, <<Rule(<<PlanNode(StrZ, <<>>)>>)>>}

InitPlan ==
    /\ pc = "start"
    /\ rawNodes = PlanNodes
    /\ \E plan \in SeqsUpTo(PlanEntries, MaxPlan), more \in SecondRules :
          rawRules = <<Rule(plan)>> \o more
    /\ timeIdx = EmptyMap
    /\ memIdx = EmptyMap
    /\ out = NoResult
    /\ report = NoResult
    /\ OldIdle
    /\ DagIdle
    /\ UiIdle

SpecPlan == InitPlan /\ [][Next]_vars

\* Aggregation: node 2 and its child node 10, given in either order, each
\* with a list of operator addresses (node 2: any list of up to MaxOps
\* addresses, repeats included), against a time log and a memory log.  The
\* addresses are such that their order as integer sequences differs from
\* their order as text.  Times are whole milliseconds, which f64 adds exactly.
MaxOps == 2

Addrs == {<<2>>, <<2, 0>>, <<10>>}

StrF == <<70>>

StrB == <<66>>

TimeRowOf(activations, total_active_ms) ==
    [activations |-> activations, total_active_ms |-> total_active_ms, op_name |-> StrF]

MemoryRowOf(batched_in, op_name) ==
    [batched_in |-> batched_in, merges |-> 1, merge_in |-> 1, merge_out |-> 1,
     dropped |-> 0, op_name |-> op_name]

\* The logs as parsed: at most one row per address.
TimeLogs ==
    UNION {[S -> {TimeRowOf(1, 10), TimeRowOf(3, 5)}] : S \in SUBSET Addrs}

MemoryLogs ==
    {m \in UNION {[S -> {MemoryRowOf(1, StrF), MemoryRowOf(3, StrF), MemoryRowOf(1, StrB)}] :
                     S \in SUBSET {<<2>>, <<2, 0>>}} :
        /\ (<<2>> \in DOMAIN m => m[<<2>>].batched_in = 1)
        /\ (<<2, 0>> \in DOMAIN m => m[<<2, 0>>].op_name = StrF)}

SecondOps == {<<>>, <<<<10>>>>, <<<<2, 0>>, <<2>>>>}

\* The same topology in the schema of the single-source pipeline (children
\* instead of parents), as its validation returns it, keyed by name.
OldNodesOf(raw) ==
    [name \in {DecStr(raw[i].id) : i \in 1..Len(raw)} |->
        LET r == raw[CHOOSE i \in 1..Len(raw) : DecStr(raw[i].id) = name]
        IN  [id          |-> r.id,
             label       |-> r.name,
             block       |-> StrOther,
             fingerprint |-> None,
             tags        |-> r.tags,
             rule        |-> None,
             children    |-> SortNat({raw[j].id : j \in {x \in 1..Len(raw) :
                                                        r.id \in Range(raw[x].parents)}}),
             operators   |-> Range(r.operators)]]

InitAgg ==
    /\ pc = "start"
    /\ \E ops2 \in SeqsUpTo(Addrs, MaxOps), ops10 \in SecondOps :
          rawNodes \in {<<RawNode(2, None, None, <<>>, ops2),
                          RawNode(10, None, None, <<2>>, ops10)>>,
                        <<RawNode(10, None, None, <<2>>, ops10),
                          RawNode(2, None, None, <<>>, ops2)>>}
    /\ rawRules = <<>>
    /\ timeIdx \in TimeLogs
    /\ memIdx \in MemoryLogs
    /\ out = NoResult
    /\ report = NoResult
    /\ oldNodes = OldNodesOf(rawNodes)
    /\ oldReport = NoResult
    /\ DagIdle
    /\ UiIdle

SpecAgg == InitAgg /\ [][NextAgg]_vars

\* Name DAGs: up to three names, up to MaxDagEdges edges in any order (also
\* self-loops, repeated edges and edges to names that are not nodes).
MaxDagEdges == 3

DagNames == {<<65>>, <<66>>, <<67>>}

DagNodeLists == {<<>>, <<<<65>>, <<65>>>>, <<<<65>>, <<66>>>>, <<<<65>>, <<66>>, <<67>>>>}

DagRootLists == {<<>>, <<<<65>>>>, <<<<66>>, <<65>>>>}

InitDag ==
    /\ dagSpec \in [nodes : DagNodeLists,
                    edges : SeqsUpTo(DagNames \X DagNames, MaxDagEdges),
                    roots : DagRootLists]
    /\ dpc = "start"
    /\ dagRoots = <<>>
    /\ rootIdx = 1
    /\ marks = EmptyMap
    /\ stack = <<>>
    /\ frames = <<>>
    /\ dagOut = NoResult
    /\ OpsIdle
    /\ UiIdle

SpecDag == InitDag /\ [][DagNext]_vars

----------------------------------------------------------------------------
(* Properties of the name-DAG validator.                                   *)

DagEdgeSet == Range(dagSpec.edges)

CycleReported == dpc = "failed" /\ dagOut.kind = "cycle"

\* C2: when cycle detection fails, the reported path is the DFS stack as
\* encountered (the root first, then the node of every active call of dfs,
\* then the node found in progress), each consecutive pair of names in it is
\* an edge of the graph, and its last element occurs earlier in the path, so
\* that the path from that earlier occurrence on holds every node of a cycle.
C2_CyclePathIsStackOfEdges ==
    CycleReported =>
        LET path == dagOut.args.path
            n    == Len(path)
        IN  /\ n >= 2
            /\ path = stack
            /\ path[1] = dagOut.args.root
            /\ n = Len(frames) + 1
            /\ \A i \in 1..(n - 1) : path[i] = frames[i].v
            /\ \A i \in 1..(n - 1) : <<path[i], path[i + 1]>> \in DagEdgeSet
            /\ \E i \in 1..(n - 1) : path[i] = path[n]

\* A cycle through two nodes, found below the root: root -> A -> B -> A.
C2_Witness ==
    /\ CycleReported
    /\ Len(dagOut.args.path) = 4
    /\ dagOut.args.path[2] = dagOut.args.path[4]
    /\ dagOut.args.path[3] # dagOut.args.path[2]
    /\ dagOut.args.path[1] # dagOut.args.path[2]

----------------------------------------------------------------------------
(* Properties of OpsSpec::validate_and_build and of the spanning tree.      *)

\* The ids reachable from the set S by following parent edges (S included).
RECURSIVE ParentClosure(_, _)
ParentClosure(nodes, S) ==
    LET T == S \cup {p \in DOMAIN nodes : \E c \in S : p \in Range(nodes[c].parents)}
    IN  IF T = S THEN S ELSE ParentClosure(nodes, T)

\* The proper ancestors of a node.
Ancestors(nodes, id) ==
    ParentClosure(nodes, {p \in DOMAIN nodes : p \in Range(nodes[id].parents)})

OnCycle(nodes, id) == id \in Ancestors(nodes, id)

\* The nodes from which parent edges lead to a node without parents.
HasRootAncestor(nodes, id) ==
    \E r \in Ancestors(nodes, id) \cup {id} : nodes[r].parents = <<>>

\* C1: every graph returned by validate_and_build is acyclic.
C1_ValidatedGraphAcyclic ==
    out.ok => \A id \in DOMAIN out.nodes : ~OnCycle(out.nodes, id)

\* C3: validate_and_build never returns a graph with an empty root set.
C3_RootsNeverEmpty ==
    out.ok => out.roots # <<>>

\* The nodes that list n among their tree children.
TreeParentsOf(rep, n) ==
    {p \in DOMAIN rep.nodes : n \in Range(rep.nodes[p].children)}

\* n reaches a root of the report in at most `fuel` primary-parent steps,
\* with exactly one tree parent at every step below the root.
RECURSIVE ClimbsToRoot(_, _, _)
ClimbsToRoot(rep, n, fuel) ==
    IF n \in Range(rep.roots) THEN TRUE
    ELSE IF fuel = 0 THEN FALSE
    ELSE LET ps == TreeParentsOf(rep, n)
         IN  /\ Cardinality(ps) = 1
             /\ ClimbsToRoot(rep, CHOOSE p \in ps : TRUE, fuel - 1)

\* C4: the spanning tree of a report is a forest whose roots are the report's
\* roots: every node climbs to a root along primary-parent edges, every
\* non-root node is in the children list of exactly one node and no root is in
\* any.
C4_SpanningTreeIsForest ==
    report.ok =>
        LET roots == Range(report.roots)
            names == DOMAIN report.nodes
        IN  /\ roots \subseteq names
            /\ \A n \in names : ClimbsToRoot(report, n, Cardinality(names))
            /\ \A n \in names \ roots : Cardinality(TreeParentsOf(report, n)) = 1
            /\ \A r \in roots : TreeParentsOf(report, r) = {}

Validated == pc # "start" /\ pc # "idle"

\* The validated nodes that carry fingerprint fp.
Carriers(nodes, fp) ==
    {id \in DOMAIN nodes : nodes[id].fingerprint = Some(fp)}

\* The fingerprints of the plan trees of the returned rules.
PlanFingerprints(rules) == UNION {DOMAIN rules[k].nodes : k \in 1..Len(rules)}

\* C5 as stated: every fingerprint of an accepted plan tree is carried by
\* exactly one validated node, and fingerprint_to_node maps it to that node.
C5_PlanFingerprintHasOneNode ==
    out.ok =>
        \A fp \in PlanFingerprints(out.rules) :
            /\ Cardinality(Carriers(out.nodes, fp)) = 1
            /\ fp \in DOMAIN out.fingerprint_to_node
            /\ Carriers(out.nodes, fp) = {out.fingerprint_to_node[fp]}

\* C5 as amended: every fingerprint of an accepted plan tree is carried by at
\* least one validated node and by at most one node of each block, and
\* fingerprint_to_node maps it to the carrying node with the smallest id.
C5_PlanFingerprintResolves ==
    out.ok =>
        \A fp \in PlanFingerprints(out.rules) :
            LET cs == Carriers(out.nodes, fp)
            IN  /\ cs # {}
                /\ \A a, b \in cs : a # b => out.nodes[a].block # out.nodes[b].block
                /\ fp \in DOMAIN out.fingerprint_to_node
                /\ out.fingerprint_to_node[fp] \in cs
                /\ \A a \in cs : out.fingerprint_to_node[fp] <= a

\* An accepted input in which a plan-tree fingerprint is carried by two nodes.
C5_Witness ==
    /\ out.ok
    /\ \E fp \in PlanFingerprints(out.rules) : Cardinality(Carriers(out.nodes, fp)) = 2

\* Raw nodes i and j are different nodes of one block with one fingerprint.
Collide(i, j) ==
    /\ rawNodes[i].id # rawNodes[j].id
    /\ NodeSpecOf(rawNodes[i]).fingerprint.some
    /\ NodeSpecOf(rawNodes[i]).fingerprint = NodeSpecOf(rawNodes[j]).fingerprint
    /\ NodeSpecOf(rawNodes[i]).block = NodeSpecOf(rawNodes[j]).block

DistinctIds ==
    \A i, j \in 1..Len(rawNodes) : rawNodes[i].id = rawNodes[j].id => i = j

\* C9: two nodes of one block with the same normalized fingerprint make
\* validation fail with the collision error, which names the ids of two such
\* nodes together with their fingerprint and block; nodes that share a
\* fingerprint across different blocks only never produce this error.
C9_SameBlockFingerprintCollision ==
    Validated =>
        /\ (DistinctIds /\ \E i, j \in 1..Len(rawNodes) : Collide(i, j))
              => (~out.ok /\ out.kind = "fingerprint_collision")
        /\ (~out.ok /\ out.kind = "fingerprint_collision")
              => \E i, j \in 1..Len(rawNodes) :
                    /\ Collide(i, j)
                    /\ out.args.prev = rawNodes[i].id
                    /\ out.args.id = rawNodes[j].id
                    /\ out.args.fp = NodeSpecOf(rawNodes[i]).fingerprint.v
                    /\ out.args.block = NodeSpecOf(rawNodes[i]).block

\* Node 1 carries a fingerprint in one block, nodes 2 and 3 carry the same
\* fingerprint in another block: the error names 2 and 3.
C9_Witness ==
    /\ Validated
    /\ ~out.ok
    /\ out.kind = "fingerprint_collision"
    /\ out.args.prev = 2
    /\ out.args.id = 3
    /\ NodeSpecOf(rawNodes[1]).fingerprint = Some(out.args.fp)
    /\ NodeSpecOf(rawNodes[1]).block # out.args.block

\* The trimmed fingerprints of the plan-tree entries of rule k as given.
RawPlanKeys(k) ==
    {Trim(rawRules[k].plan_tree[e].fingerprint) : e \in 1..Len(rawRules[k].plan_tree)}

\* The raw nodes whose normalized fingerprint is a plan-tree key of no rule.
Unrecorded ==
    {i \in 1..Len(rawNodes) :
        /\ NodeSpecOf(rawNodes[i]).fingerprint.some
        /\ \A k \in 1..Len(rawRules) :
              NodeSpecOf(rawNodes[i]).fingerprint.v \notin RawPlanKeys(k)}

\* The raw nodes have distinct ids, no two of them collide and every parent
\* named is a node: nothing of Phases 1 and 2 fails.
PassesPhases1And2 ==
    /\ rawNodes # <<>>
    /\ DistinctIds
    /\ \A a, b \in 1..Len(rawNodes) : ~Collide(a, b)
    /\ \A a \in 1..Len(rawNodes) :
          Range(rawNodes[a].parents) \subseteq {rawNodes[b].id : b \in 1..Len(rawNodes)}

\* C10: if the fingerprint of some node is a key of no rule's plan tree (in
\* particular when no rules are given), validation fails; unless an earlier
\* check fails first, the error is the one of Phase 4 and names such a node,
\* the one with the smallest id, and its fingerprint.
C10_FingerprintedNodeNeedsRule ==
    Validated =>
        /\ Unrecorded # {} => ~out.ok
        /\ (/\ Unrecorded # {}
            /\ rawRules = <<>>
            /\ PassesPhases1And2)
              => (~out.ok /\ out.kind = "fingerprint_not_in_rules")
        /\ (~out.ok /\ out.kind = "fingerprint_not_in_rules")
              => \E i \in Unrecorded :
                    /\ out.args.id = rawNodes[i].id
                    /\ out.args.fp = NodeSpecOf(rawNodes[i]).fingerprint.v
                    /\ \A j \in Unrecorded : rawNodes[i].id <= rawNodes[j].id

\* No rules at all, and a fingerprinted node: the Phase 4 error.
C10_Witness ==
    /\ Validated
    /\ rawRules = <<>>
    /\ ~out.ok
    /\ out.kind = "fingerprint_not_in_rules"

\* The fingerprints that the entries of rule k declare as children of p:
\* every entry that lists p among its parents.
DeclaredChildren(k, p) ==
    {Trim(rawRules[k].plan_tree[e].fingerprint) :
        e \in {x \in 1..Len(rawRules[k].plan_tree) :
                  p \in Range(rawRules[k].plan_tree[x].parents)}}

\* The sinks of rule k as declared: the keys no entry names as a parent.
DeclaredSinks(k) == {p \in RawPlanKeys(k) : DeclaredChildren(k, p) = {}}

\* Two entries of rule k have the same trimmed fingerprint.
HasDuplicateEntries(k) ==
    \E i, j \in 1..Len(rawRules[k].plan_tree) :
        /\ i < j
        /\ Trim(rawRules[k].plan_tree[i].fingerprint)
             = Trim(rawRules[k].plan_tree[j].fingerprint)

\* C6: a rule whose plan tree has two entries with the same trimmed
\* fingerprint makes validation fail.
C6_DuplicatePlanEntriesRejected ==
    Validated =>
        ((\E k \in 1..Len(rawRules) : HasDuplicateEntries(k)) => ~out.ok)

\* C7: a plan tree is accepted only if exactly one of its fingerprints has no
\* children among the declared edges, the root of the rule being that sink;
\* and the sink-count error reports the number of sinks of a rule given.
C7_ExactlyOneSink ==
    Validated =>
        /\ out.ok =>
              \A k \in 1..Len(rawRules) :
                  /\ Cardinality(DeclaredSinks(k)) = 1
                  /\ DeclaredSinks(k) = {out.rules[k].root}
        /\ (~out.ok /\ out.kind = "sink_count") =>
              \E k \in 1..Len(rawRules) :
                  /\ out.args.found # 1
                  /\ out.args.found = Cardinality(DeclaredSinks(k))

\* The fingerprints reachable from the set S along children edges (S included).
RECURSIVE ChildClosure(_, _)
ChildClosure(plan, S) ==
    LET T == S \cup UNION {Range(plan[p].children) : p \in S}
    IN  IF T = S THEN S ELSE ChildClosure(plan, T)

\* C8: the fingerprint -> children relation of every returned RuleSpec is
\* acyclic.
C8_PlanTreeIsDag ==
    out.ok =>
        \A k \in 1..Len(out.rules) :
            \A fp \in DOMAIN out.rules[k].nodes :
                fp \notin ChildClosure(out.rules[k].nodes,
                                       Range(out.rules[k].nodes[fp].children))

----------------------------------------------------------------------------
(* Referential integrity and unique ids.                                   *)

RawIds == {rawNodes[i].id : i \in 1..Len(rawNodes)}

\* The raw nodes that name a parent id that is the id of no node.
Dangling == {i \in 1..Len(rawNodes) : ~(Range(rawNodes[i].parents) \subseteq RawIds)}

\* C11: a node naming a parent id that is the id of no node makes validation
\* fail; unless an earlier check fails first the error is the missing-parent
\* error, which names a node and a parent id of that node that is the id of no
\* node; every graph returned has all its parent ids inside the node set.
C11_ReferentialIntegrity ==
    Validated =>
        /\ Dangling # {} => ~out.ok
        /\ (/\ Dangling # {}
            /\ DistinctIds
            /\ \A a, b \in 1..Len(rawNodes) : ~Collide(a, b))
              => (~out.ok /\ out.kind = "missing_parent")
        /\ (~out.ok /\ out.kind = "missing_parent")
              => \E i \in Dangling :
                    /\ out.args.node = rawNodes[i].id
                    /\ out.args.pid \in Range(rawNodes[i].parents)
                    /\ out.args.pid \notin RawIds
        /\ out.ok => \A id \in DOMAIN out.nodes :
                        Range(out.nodes[id].parents) \subseteq DOMAIN out.nodes

\* Two nodes, the second of which names a parent that exists and one that
\* does not: the error names that node and the missing id.
C11_Witness ==
    /\ Validated
    /\ ~out.ok
    /\ out.kind = "missing_parent"
    /\ Len(rawNodes) = 2
    /\ rawNodes[1].id = 2
    /\ rawNodes[2].parents = <<10, 2>>
    /\ out.args = [node |-> rawNodes[2].id, pid |-> 10]

\* The positions of raw nodes whose id is also the id of an earlier raw node.
Repeated == {j \in 1..Len(rawNodes) : \E i \in 1..(j - 1) : rawNodes[i].id = rawNodes[j].id}

\* C12: two raw nodes with the same id, wherever they stand in the input, make
\* validation fail with the duplicate-id error naming an id that occurs twice;
\* every node map returned has exactly one entry per raw node, the node
\* normalized.
C12_DuplicateIdRejected ==
    Validated =>
        /\ Repeated # {}
              => /\ ~out.ok
                 /\ out.kind = "duplicate_id"
                 /\ \E j \in Repeated : out.args.id = rawNodes[j].id
        /\ out.ok
              => /\ Cardinality(DOMAIN out.nodes) = Len(rawNodes)
                 /\ \A i \in 1..Len(rawNodes) :
                       /\ rawNodes[i].id \in DOMAIN out.nodes
                       /\ out.nodes[rawNodes[i].id] = NodeSpecOf(rawNodes[i])

\* The first and the third raw node share an id, the second has another one.
C12_Witness ==
    /\ Validated
    /\ Len(rawNodes) = 3
    /\ rawNodes[1].id = rawNodes[3].id
    /\ rawNodes[2].id # rawNodes[1].id
    /\ ~out.ok
    /\ out.kind = "duplicate_id"
    /\ out.args.id = rawNodes[3].id

----------------------------------------------------------------------------
(* Properties of the aggregation.                                          *)

\* build_report_data has returned (or panicked).
Aggregated == report # NoResult

\* model::build_report_data has returned (or panicked).
OldAggregated == oldReport # NoResult

\* The raw nodes that list address a.
Listing(a) == {i \in 1..Len(rawNodes) : a \in Range(rawNodes[i].operators)}

\* The addresses listed by two raw nodes with different ids.
SharedAddrs ==
    {a \in Addrs : \E i, j \in Listing(a) : rawNodes[i].id # rawNodes[j].id}

\* The addresses of both logs whose op_name differs between them.
Mismatched ==
    {a \in DOMAIN timeIdx \cap DOMAIN memIdx : timeIdx[a].op_name # memIdx[a].op_name}

\* An ownership error names an address listed by two different nodes, and the
\* names of two such nodes.
OwnershipErrorNamesBoth(result) ==
    (~result.ok /\ result.kind = "addr_multiple_names")
        => /\ result.args.addr \in SharedAddrs
           /\ result.args.prev # result.args.name
           /\ \E i, j \in Listing(result.args.addr) :
                 /\ DecStr(rawNodes[i].id) = result.args.prev
                 /\ DecStr(rawNodes[j].id) = result.args.name

\* C13: an address listed by two different nodes makes build_report_data (of
\* either pipeline) fail, no report being produced; unless the op_name check
\* of the two logs fails first, the error is the ownership error, which names
\* such an address and the two nodes; an address listed twice by one node only
\* never produces this error.
C13_AddressHasOneOwner ==
    /\ Aggregated =>
          /\ SharedAddrs # {} => ~report.ok
          /\ (SharedAddrs # {} /\ Mismatched = {})
                => (~report.ok /\ report.kind = "addr_multiple_names")
          /\ OwnershipErrorNamesBoth(report)
    /\ OldAggregated =>
          /\ SharedAddrs # {} => (~oldReport.ok /\ oldReport.kind = "addr_multiple_names")
          /\ OwnershipErrorNamesBoth(oldReport)

\* Node 2 lists [2] twice and node 10 lists it once: the error names [2] and
\* the two nodes, in iteration order of the names ("10" before "2").
C13_Witness ==
    /\ Aggregated
    /\ \E i \in 1..Len(rawNodes) :
          rawNodes[i].id = 2 /\ rawNodes[i].operators = <<<<2>>, <<2>>>>
    /\ ~report.ok
    /\ report.kind = "addr_multiple_names"
    /\ report.args = [addr |-> <<2>>, prev |-> DecStr(10), name |-> DecStr(2)]
    /\ oldReport = report

\* C14: whenever some address, owned by a node or not, has rows in both logs
\* with different op_name, build_report_data fails with the mismatch error,
\* which reports such an address and the two names; a successful aggregation
\* implies that op_name agrees on every address of both logs.
C14_OpNameAgreesAcrossLogs ==
    Aggregated =>
        /\ Mismatched # {}
              => /\ ~report.ok
                 /\ report.kind = "op_name_mismatch"
                 /\ report.args.addr \in Mismatched
                 /\ report.args.time = timeIdx[report.args.addr].op_name
                 /\ report.args.memory = memIdx[report.args.addr].op_name
        /\ report.ok => Mismatched = {}

\* The two logs disagree on an address that no node lists.
C14_Witness ==
    /\ Aggregated
    /\ Mismatched = {<<2>>}
    /\ Listing(<<2>>) = {}
    /\ ~report.ok
    /\ report.kind = "op_name_mismatch"
    /\ report.args = [addr |-> <<2>>, time |-> StrF, memory |-> StrB]

\* The addresses a name owns: those its raw node lists.
Owned(name) ==
    UNION {Range(rawNodes[i].operators) :
              i \in {x \in 1..Len(rawNodes) : DecStr(rawNodes[x].id) = name}}

\* Sum of f over the set S.
RECURSIVE SumOver(_, _)
SumOver(S, f) ==
    IF S = {} THEN 0
    ELSE LET x == CHOOSE y \in S : TRUE IN f[x] + SumOver(S \ {x}, f)

\* The activation counts and the active times of the time rows, by address.
ActivationsOf == [a \in DOMAIN timeIdx |-> timeIdx[a].activations]

ActiveMsOf == [a \in DOMAIN timeIdx |-> timeIdx[a].total_active_ms]

\* In result, every node's sums are the sums over the time rows of the
\* addresses it owns, each counted once.
SelfSumsAreSums(result) ==
    result.ok =>
        \A name \in DOMAIN result.nodes :
            /\ result.nodes[name].self_activations
                  = SumOver(Owned(name) \cap DOMAIN timeIdx, ActivationsOf)
            /\ result.nodes[name].self_total_active_ms
                  = SumOver(Owned(name) \cap DOMAIN timeIdx, ActiveMsOf)

\* C15: for every node of a report (of either pipeline), self_activations is
\* the sum of the activation counts and self_total_active_ms the sum of the
\* active times of the time rows of exactly the addresses the node owns.
C15_SelfSumsAreSums ==
    /\ Aggregated => SelfSumsAreSums(report)
    /\ OldAggregated => SelfSumsAreSums(oldReport)

\* The nodes handed to build_report_data.
AggNodes == NodesByName(out.nodes)

\* The (name, address) pairs of addresses that a node declares, that no other
\* node declares and that have no row in the time log.
MissingFromTime ==
    {na \in (DOMAIN AggNodes) \X Addrs :
        /\ na[2] \in AggNodes[na[1]].operators
        /\ na[2] \notin DOMAIN timeIdx
        /\ na[2] \notin SharedAddrs}

\* The report build_report_data returns when node na[1] does not declare na[2]
\* (wrapping arithmetic).
ReportWithout(na) ==
    BuildReportData([AggNodes EXCEPT ![na[1]].operators = @ \ {na[2]}],
                    RootNames(out.roots), out.rules,
                    FingerprintToName(out.fingerprint_to_node), timeIdx, memIdx, FALSE)

\* What build_report_data returns when the time log has a row of zero counts
\* for na[2] (named as the memory log names it).
ReportWithZeroRow(na, overflow_checks) ==
    BuildReportData(AggNodes, RootNames(out.roots), out.rules,
                    FingerprintToName(out.fingerprint_to_node),
                    MapPut(timeIdx, na[2],
                           [activations |-> 0, total_active_ms |-> 0,
                            op_name |-> IF na[2] \in DOMAIN memIdx
                                        THEN memIdx[na[2]].op_name ELSE StrF]),
                    memIdx, overflow_checks)

\* The address of na is no cause of failure, is warned about, is listed with
\* zero counts, and leaves the node's time sums and all other nodes as they
\* are when it is not declared.
MissingIsHarmless(na) ==
    /\ \E overflow_checks \in BOOLEAN :
          /\ report.ok = ReportWithZeroRow(na, overflow_checks).ok
          /\ ~report.ok => report = ReportWithZeroRow(na, overflow_checks)
    /\ report.ok =>
          /\ \E k \in 1..Len(report.warnings) :
                report.warnings[k] = [name |-> na[1], addr |-> na[2]]
          /\ \E k \in 1..Len(report.nodes[na[1]].operators) :
                /\ report.nodes[na[1]].operators[k].addr = na[2]
                /\ report.nodes[na[1]].operators[k].activations = 0
                /\ report.nodes[na[1]].operators[k].total_active_ms = 0
          /\ ReportWithout(na).ok
          /\ report.nodes[na[1]].self_activations
                = ReportWithout(na).nodes[na[1]].self_activations
          /\ report.nodes[na[1]].self_total_active_ms
                = ReportWithout(na).nodes[na[1]].self_total_active_ms
          /\ \A m \in DOMAIN report.nodes \ {na[1]} :
                report.nodes[m] = ReportWithout(na).nodes[m]
          /\ report.roots = ReportWithout(na).roots
          /\ report.rules = ReportWithout(na).rules

\* What model::build_report_data returns when node na[1] does not declare na[2].
OldReportWithout(na, overflow_checks) ==
    OldBuildReportData([oldNodes EXCEPT ![na[1]].operators = @ \ {na[2]}],
                       SortStr({n \in DOMAIN oldNodes : OldParents(oldNodes, n) = <<>>}),
                       <<>>, EmptyMap, timeIdx, overflow_checks)

\* In the single-source aggregation the address of na is warned about and
\* everything else is as if it had not been declared.
OldMissingIsHarmless(na) ==
    \E overflow_checks \in BOOLEAN :
        LET without == OldReportWithout(na, overflow_checks)
        IN  /\ oldReport.ok = without.ok
            /\ ~oldReport.ok => oldReport = without
            /\ oldReport.ok =>
                  /\ \E k \in 1..Len(oldReport.warnings) :
                        oldReport.warnings[k] = [name |-> na[1], addr |-> na[2]]
                  /\ oldReport.nodes = without.nodes
                  /\ oldReport.totals = without.totals
                  /\ oldReport.roots = without.roots

\* C16 as stated: an address declared by a node but missing from the time log
\* is no cause of failure, is warned about, and contributes zero to the node's
\* activation and time sums and to the totals: all the totals, and the rest of
\* the report, are as if it had not been declared.
C16_MissingAddressContributesNothing ==
    /\ OldAggregated => \A na \in MissingFromTime : OldMissingIsHarmless(na)
    /\ Aggregated =>
        \A na \in MissingFromTime :
            /\ MissingIsHarmless(na)
            /\ report.ok => report.totals = ReportWithout(na).totals

\* C16, amended: as above, but of the totals only those of the time log
\* (names, operators_in_time, operators_mapped, total_mapped_ms,
\* total_mapped_activations) are as if the address had not been declared; a
\* memory row of the address still counts in total_batched_in.
C16_MissingAddressContributesNoTime ==
    /\ OldAggregated => \A na \in MissingFromTime : OldMissingIsHarmless(na)
    /\ Aggregated =>
        \A na \in MissingFromTime :
            /\ MissingIsHarmless(na)
            /\ report.ok =>
                  /\ \A f \in {"names", "operators_in_time", "operators_mapped",
                               "total_mapped_ms", "total_mapped_activations"} :
                        report.totals[f] = ReportWithout(na).totals[f]
                  /\ report.totals.total_batched_in
                        = U64Wrap(ReportWithout(na).totals.total_batched_in
                                  + (IF na[2] \in DOMAIN memIdx
                                     THEN memIdx[na[2]].batched_in ELSE 0))

\* Node 2 declares [2], which has a time row, and [2, 0], which has a memory
\* row only; a report is produced.
C16_Witness ==
    /\ Aggregated
    /\ report.ok
    /\ <<DecStr(2), <<2, 0>>>> \in MissingFromTime
    /\ <<2, 0>> \in DOMAIN memIdx
    /\ <<2>> \in Owned(DecStr(2)) \cap DOMAIN timeIdx
    /\ report.nodes[DecStr(2)].self_activations = timeIdx[<<2>>].activations
    /\ report.totals.total_batched_in > 0

\* The addresses of a list of operator views.
AddrsOf(operators) == [k \in 1..Len(operators) |-> operators[k].addr]

\* The memory field of an address as an OperatorView carries it.
MemoryField(a, field) ==
    IF a \in DOMAIN memIdx THEN Some(memIdx[a][field]) ELSE None

\* C17: in a report, a node's operators list has exactly one OperatorView per
\* address the node declares; the view of an address with a time row carries
\* its counts, the view of an address without one has activations and total
\* active time zero (and an empty name); in both cases the memory fields are
\* those of the memory row, if there is one.
C17_OneViewPerDeclaredAddress ==
    (Aggregated /\ report.ok) =>
        \A name \in DOMAIN report.nodes :
            LET operators == report.nodes[name].operators
            IN  /\ Len(operators) = Cardinality(Owned(name))
                /\ Range(AddrsOf(operators)) = Owned(name)
                /\ \A k \in 1..Len(operators) :
                      LET a == operators[k].addr
                      IN  /\ a \in DOMAIN timeIdx =>
                                /\ operators[k].activations = timeIdx[a].activations
                                /\ operators[k].total_active_ms = timeIdx[a].total_active_ms
                                /\ operators[k].op_name = timeIdx[a].op_name
                          /\ a \notin DOMAIN timeIdx =>
                                /\ operators[k].activations = 0
                                /\ operators[k].total_active_ms = 0
                                /\ operators[k].op_name = <<>>
                          /\ \A f \in {"batched_in", "merges", "merge_in",
                                       "merge_out", "dropped"} :
                                operators[k][f] = MemoryField(a, f)

\* Node 10 declares [2, 0] and [2]; [2, 0] has a memory row and no time row
\* and is listed with zero counts and its batched_in.
C17_Witness ==
    /\ Aggregated
    /\ report.ok
    /\ <<2, 0>> \in DOMAIN memIdx \ DOMAIN timeIdx
    /\ <<2>> \in DOMAIN timeIdx
    /\ Len(report.nodes[DecStr(10)].operators) = 2
    /\ report.nodes[DecStr(10)].operators[2].addr = <<2, 0>>
    /\ report.nodes[DecStr(10)].operators[2].activations = 0
    /\ report.nodes[DecStr(10)].operators[2].batched_in = Some(3)

\* C18: the totals of a report tell how many declared addresses were not
\* found in the time log: a report with such an address differs in its totals
\* from the report of the same input without the declaration.
C18_TotalsCountMissingAddresses ==
    (Aggregated /\ report.ok) =>
        \A na \in MissingFromTime :
            ReportWithout(na).ok => ReportWithout(na).totals # report.totals

\* C19: the operators list of every node is determined by the set of
\* addresses the node declares and by the logs, whatever the order of
\* addresses and nodes in the input: in the merged report it holds the declared
\* addresses in strictly ascending order (as integer sequences); in the
\* single-source report it holds the declared addresses that have a log row,
\* by descending total active time and, at equal times, ascending address.
C19_OperatorsOrderDeterministic ==
    /\ (Aggregated /\ report.ok) =>
          \A name \in DOMAIN report.nodes :
              LET operators == report.nodes[name].operators
              IN  /\ Range(AddrsOf(operators)) = Owned(name)
                  /\ \A k \in 1..(Len(operators) - 1) :
                        SeqLess(operators[k].addr, operators[k + 1].addr)
    /\ (OldAggregated /\ oldReport.ok) =>
          \A name \in DOMAIN oldReport.nodes :
              LET operators == oldReport.nodes[name].operators
              IN  /\ Range(AddrsOf(operators)) = Owned(name) \cap DOMAIN timeIdx
                  /\ \A k \in 1..(Len(operators) - 1) :
                        \/ operators[k].total_active_ms > operators[k + 1].total_active_ms
                        \/ /\ operators[k].total_active_ms = operators[k + 1].total_active_ms
                           /\ SeqLess(operators[k].addr, operators[k + 1].addr)

\* Node 2, given after node 10, declares [10] before [2]; [10] has the larger
\* time.  The merged report lists [2], [10]; the single-source one [10], [2].
C19_Witness ==
    /\ Aggregated
    /\ OldAggregated
    /\ rawNodes[2].id = 2
    /\ rawNodes[2].operators = <<<<10>>, <<2>>>>
    /\ report.ok
    /\ AddrsOf(report.nodes[DecStr(2)].operators) = <<<<2>>, <<10>>>>
    /\ oldReport.ok
    /\ AddrsOf(oldReport.nodes[DecStr(2)].operators) = <<<<10>>, <<2>>>>

----------------------------------------------------------------------------
(* Specification of the report page: the report of a small plan with blocks *)
(* is built and its page is used.                                           *)

StrStratum1 == StrStratum \o <<32, 49>>

\* A label of two words that does not fit one line of a node box.
LongLabel == [k \in 1..60 |-> IF k = 30 THEN 32 ELSE 97]

\* Node 2 is a root, in no block or in "stratum 1"; node 10, with the long
\* label and in no block, and node 11, in "stratum 1", are children of 2.
UiPlans ==
    {<<RawNode(2, b2, None, <<>>, <<>>),
       [RawNode(10, None, None, <<2>>, <<>>) EXCEPT !.name = LongLabel],
       RawNode(11, Some(StrStratum1), None, <<2>>, <<>>)>> :
        b2 \in {None, Some(StrStratum1)}}

InitUi ==
    /\ pc = "start"
    /\ rawNodes \in UiPlans
    /\ rawRules = <<>>
    /\ timeIdx = EmptyMap
    /\ memIdx = EmptyMap
    /\ out = NoResult
    /\ report = NoResult
    /\ OldIdle
    /\ DagIdle
    /\ UiIdle

NextUi == Validate \/ Aggregate \/ PageNext

SpecUi == InitUi /\ [][NextUi]_vars

\* C20: layout determinism.  Whenever renderGraph has replaced one graph by
\* the next, every node has the same rank, every layer the same order and
\* every box the same width and height in both, whatever selection, pan,
\* zoom, search text and expanded set the two passes ran under.
RankOrderBoxes(layout) ==
    [depth  |-> layout.depth,
     layers |-> layout.layers,
     boxes  |-> [n \in DOMAIN layout.boxByName |->
                   <<layout.boxByName[n].w, layout.boxByName[n].h>>]]

ScaleInRange(g) ==
    /\ ~FracLess(g.scale, Frac(1, 5))
    /\ ~FracLess(FracOf(4), g.scale)

ClampedProduct(s, factor) ==
    LET product == FracMul(s, factor)
    IN  IF FracLess(product, Frac(1, 5)) THEN Frac(1, 5)
        ELSE IF FracLess(FracOf(4), product) THEN FracOf(4)
        ELSE product

ScaleStepClamps ==
    state'.graph.scale # state.graph.scale =>
        \E factor \in WheelFactors :
            state'.graph.scale = ClampedProduct(state.graph.scale, factor)

PanOnlyByDrag ==
    (/\ state'.graph.scale = state.graph.scale
     /\ <<state'.graph.tx, state'.graph.ty>> # <<state.graph.tx, state.graph.ty>>) =>
        /\ svg.dragging
        /\ svg'.dragging
        /\ <<svg'.lastX, svg'.lastY>> # <<svg.lastX, svg.lastY>>

C21_ZoomScaleClamped ==
    /\ [](ScaleInRange(state.graph) /\ ScaleInRange(svg.transform))
    /\ [][ScaleStepClamps /\ PanOnlyByDrag]_vars

\* A wheel event clamped the scale to the lower bound around a cursor off
\* the origin, after a selection and a pointer event; the next wheel event
\* with the same factor leaves the scale as it is.
C21_Witness ==
    /\ SvgOnScreen
    /\ state.graph.scale = MinScale
    /\ state.graph.tx # FracOf(0)
    /\ svg.lastX # 0
    /\ state.selected # Some(DATA.roots[1])
    /\ \E factor \in WheelFactors :
          /\ factor # FracOf(1)
          /\ ClampedProduct(state.graph.scale, factor) = state.graph.scale

\* C22: zoom anchoring.  Under translate(tx, ty) scale(s) the graph point q
\* is drawn at (tx, ty) + s * q.  On every step that changes the scale, the
\* graph point that was drawn at the cursor of the wheel event is drawn at
\* that cursor again under the new tx, ty and scale, which are the ones
\* applied to the viewport.
GraphPointAt(g, pt) ==
    <<FracDiv(FracSub(FracOf(pt[1]), g.tx), g.scale),
      FracDiv(FracSub(FracOf(pt[2]), g.ty), g.scale)>>

DrawnAt(g, q) ==
    <<FracAdd(g.tx, FracMul(g.scale, q[1])),
      FracAdd(g.ty, FracMul(g.scale, q[2]))>>

ZoomStepAnchored ==
    state'.graph.scale # state.graph.scale =>
        /\ DrawnAt(state'.graph, GraphPointAt(state.graph, wheelAt'))
              = <<FracOf(wheelAt'[1]), FracOf(wheelAt'[2])>>
        /\ svg'.transform = state'.graph

C22_ZoomAnchoring == [][ZoomStepAnchored]_vars

\* A wheel event at a cursor off the origin zoomed a panned graph and the
\* new scale was clamped to the upper bound.
C22_Witness ==
    /\ wheelAt = <<40, 20>>
    /\ state.graph.scale = MaxScale
    /\ gestures = 2
    /\ svg.lastX # 0
    /\ svg.transform = state.graph

\* C23: the svg is Idle (not dragging) or Dragging.  In every state with the
\* svg on screen: pointer-down leaves it Dragging exactly if it was Dragging
\* or the button is the primary one and the target is no node; pointer-up
\* and pointer-cancel leave it Idle; pointer-move keeps it as it is, does
\* nothing when Idle and adds the movement over the scale to the pan offset
\* when Dragging; and none of the four changes the scale, the selection or
\* anything of the state but the pan offset.  On every step in which the
\* same svg starts or stops Dragging, the state stays as it is.
SamePanExcept(st, after) == [after EXCEPT !.graph.tx = st.graph.tx, !.graph.ty = st.graph.ty] = st

PointerDownFollows ==
    \A button \in Buttons, onNode \in BOOLEAN, pt \in ClientPoints :
        LET after == pointerdown(state, svg, button, onNode, pt)
        IN  /\ after.svg.dragging = (svg.dragging \/ (button = 0 /\ ~onNode))
            /\ after.state = state
            /\ after.svg.transform = svg.transform

PointerUpFollows ==
    /\ ~pointerup(state, svg).svg.dragging
    /\ pointerup(state, svg).state = state
    /\ ~pointercancel(state, svg).svg.dragging
    /\ pointercancel(state, svg).state = state

PointerMoveFollows ==
    \A pt \in ClientPoints :
        LET after == pointermove(state, svg, pt)
            moved(t, d) == FracAdd(t, FracDiv(FracOf(d), state.graph.scale))
        IN  /\ after.svg.dragging = svg.dragging
            /\ SamePanExcept(state, after.state)
            /\ ~svg.dragging => (after.state = state /\ after.svg = svg)
            /\ svg.dragging =>
                  /\ after.state.graph.tx = moved(state.graph.tx, pt[1] - svg.lastX)
                  /\ after.state.graph.ty = moved(state.graph.ty, pt[2] - svg.lastY)
                  /\ after.svg.transform = after.state.graph

DragStepKeepsState ==
    (passes' = passes /\ svg'.dragging # svg.dragging) => state' = state

C23_DragStateMachine ==
    /\ [](SvgOnScreen => (PointerDownFollows /\ PointerUpFollows /\ PointerMoveFollows))
    /\ [][DragStepKeepsState]_vars

\* A drag is under way and has panned the graph, zoomed before, by a
\* pointer-move away from where the primary button went down.
C23_Witness ==
    /\ SvgOnScreen
    /\ svg.dragging
    /\ state.graph.scale # FracOf(1)
    /\ state.graph.tx # FracOf(0)
    /\ gestures = 2
    /\ wheelAt = <<0, 0>>

\* C24: selecting a node changes only the selection.  On every step of the
\* open page that changes the selection, the pan offset, the zoom scale, the
\* search text, the expanded set and the view stay as they are, renderGraph
\* runs exactly once, the new graph marks the new selection, and every node
\* has the rank and every layer the order it had in the graph replaced.
SelectionStep == page = "open" /\ state'.selected # state.selected

SelectionStepIsPure ==
    SelectionStep =>
        /\ [state' EXCEPT !.selected = state.selected] = state
        /\ passes' = passes + 1
        /\ prevSvg' = svg
        /\ svg'.present
        /\ svg'.selected = state'.selected
        /\ svg'.transform = state.graph
        /\ svg.present =>
              /\ svg'.layout.depth = svg.layout.depth
              /\ svg'.layout.layers = svg.layout.layers

C24_SelectionChangesOnlySelection == [][SelectionStepIsPure]_vars

\* A node was selected in the graph view of a panned and zoomed graph, with
\* a search text and an expanded node, in place of another node.
C24_Witness ==
    /\ state.view = "graph"
    /\ svg.present
    /\ prevSvg.present
    /\ passes = MaxPasses
    /\ svg.selected # prevSvg.selected
    /\ prevSvg.transform = state.graph
    /\ state.graph.scale = MinScale
    /\ state.graph.ty # FracOf(0)
    /\ state.search # <<>>
    /\ state.expanded # {}

----------------------------------------------------------------------------
(* Specification of the layout: the page of a plan of three nodes, with or  *)
(* without blocks, parents and cycles, is loaded and its graph rendered.    *)

\* Blocks of the plans: none, "input", "stratum 1", "inspect".
LayoutBlocks == {None, Some(StrInput), Some(StrStratum1), Some(StrInspect)}

LayoutPlans ==
    {<<RawNode(2, b2, None, p2, <<>>),
       RawNode(10, b10, None, p10, <<>>),
       [RawNode(11, b11, None, p11, <<>>) EXCEPT !.name = label]>> :
        b2 \in LayoutBlocks, b10 \in LayoutBlocks, b11 \in LayoutBlocks,
        p2 \in {<<>>, <<10>>},
        p10 \in {<<>>, <<2>>, <<11>>},
        p11 \in {<<>>, <<2>>, <<10>>, <<2, 10>>},
        label \in {<<110>>, LongLabel}}

InitLayout ==
    /\ pc = "start"
    /\ rawNodes \in LayoutPlans
    /\ rawRules = <<>>
    /\ timeIdx = EmptyMap
    /\ memIdx = EmptyMap
    /\ out = NoResult
    /\ report = NoResult
    /\ OldIdle
    /\ DagIdle
    /\ UiIdle

NextLayout == Validate \/ Aggregate \/ Load \/ TabGraph

SpecLayout == InitLayout /\ [][NextLayout]_vars

\* The graph of DATA is acyclic: no node is among its own ancestors by
\* dag_parents.
RECURSIVE AncestorsWithin(_, _, _)
AncestorsWithin(nodes, S, k) ==
    IF k = 0 THEN S
    ELSE AncestorsWithin(nodes,
            S \cup UNION {Range(nodes[n].dag_parents) \cap DOMAIN nodes : n \in S}, k - 1)

AncestorsOf(nodes, v) ==
    AncestorsWithin(nodes, Range(nodes[v].dag_parents) \cap DOMAIN nodes,
                    Cardinality(DOMAIN nodes))

AcyclicData == \A v \in DOMAIN DATA.nodes : v \notin AncestorsOf(DATA.nodes, v)

\* C25: rank assignment.  In the graph rendered from acyclic data, every
\* node's rank is the greater of the base rank of its block and one more
\* than the greatest rank of its parents, over all of its DAG parents.
BaseRank(v) == blockRank(blockOf(DATA.nodes[v]))

RankFromParents(depth, parents) ==
    IF parents = {} THEN 0
    ELSE 1 + (CHOOSE m \in {depth[p] : p \in parents} : \A p \in parents : depth[p] <= m)

C25_RankAboveAllParents ==
    (svg.present /\ AcyclicData) =>
        \A v \in DOMAIN DATA.nodes :
            svg.layout.depth[v] =
                Max(BaseRank(v),
                    RankFromParents(svg.layout.depth, Range(DATA.nodes[v].dag_parents)))

----------------------------------------------------------------------------
(* Specification of the block ranks: the page of a plan of two roots, each  *)
(* in a block of a family of names, is loaded and its graph rendered.       *)

\* "stratum N".
StratumName(N) == StrStratum \o <<32>> \o DecStr(N)

\* The numbers of the strata of the family.
StratumNumbers == {2, 10, 999, 1000}

\* "input", "Input", "inputs".
InputNames == {StrInput, <<73>> \o Tail(StrInput), StrInput \o <<115>>}

\* "inspect", "Inspect", "my inspect".
InspectNames == {StrInspect, <<73>> \o Tail(StrInspect), <<109, 121, 32>> \o StrInspect}

\* "other" (also the block of a node without one), "zzz", "Misc".
OtherNames == {StrOther, <<122, 122, 122>>, <<77, 105, 115, 99>>}

BlockNames ==
    InputNames \cup {StratumName(N) : N \in StratumNumbers} \cup InspectNames \cup OtherNames

InitBlocks ==
    /\ pc = "start"
    /\ \E b2 \in {None} \cup {Some(b) : b \in BlockNames}, b10 \in {Some(b) : b \in BlockNames} :
          rawNodes = <<RawNode(2, b2, None, <<>>, <<>>), RawNode(10, b10, None, <<>>, <<>>)>>
    /\ rawRules = <<>>
    /\ timeIdx = EmptyMap
    /\ memIdx = EmptyMap
    /\ out = NoResult
    /\ report = NoResult
    /\ OldIdle
    /\ DagIdle
    /\ UiIdle

NextBlocks == Validate \/ Aggregate \/ Load \/ TabGraph

SpecBlocks == InitBlocks /\ [][NextBlocks]_vars

\* C26: the base rank orders the blocks.  In the graph rendered for two
\* roots, whose rank is the base rank of their block: a root in an
\* input-like block is ranked no later than the other root; of two roots in
\* stratum N and stratum M with N < M the first is ranked strictly earlier;
\* a root in an inspect-like block is ranked no earlier than the other root;
\* and two roots in other blocks have the same rank.
BlockOfRoot(v) == DATA.nodes[v].block

StratumOf(block) == CHOOSE N \in StratumNumbers : block = StratumName(N)

IsStratum(block) == \E N \in StratumNumbers : block = StratumName(N)

C26_BaseRankOrdersBlocks ==
    svg.present =>
        \A a \in DOMAIN DATA.nodes, b \in DOMAIN DATA.nodes :
            LET rank == svg.layout.depth
            IN  /\ BlockOfRoot(a) \in InputNames => rank[a] <= rank[b]
                /\ (/\ IsStratum(BlockOfRoot(a))
                    /\ IsStratum(BlockOfRoot(b))
                    /\ StratumOf(BlockOfRoot(a)) < StratumOf(BlockOfRoot(b))) => rank[a] < rank[b]
                /\ BlockOfRoot(a) \in InspectNames => rank[a] >= rank[b]
                /\ (BlockOfRoot(a) \in OtherNames /\ BlockOfRoot(b) \in OtherNames) =>
                      rank[a] = rank[b]

----------------------------------------------------------------------------
\* The nodes with an edge of the layout to v.
LayoutParents(nodes, v) == {u \in DOMAIN nodes : v \in Range(nodes[u].children)}

RECURSIVE LayoutAncestorsWithin(_, _, _)
LayoutAncestorsWithin(nodes, S, k) ==
    IF k = 0 THEN S
    ELSE LayoutAncestorsWithin(nodes,
            S \cup UNION {LayoutParents(nodes, n) : n \in S}, k - 1)

LayoutAncestors(nodes, v) ==
    LayoutAncestorsWithin(nodes, LayoutParents(nodes, v), Cardinality(DOMAIN nodes))

\* The nodes on a cycle of the layout's edges or below one.
OnOrBelowCycle(nodes) ==
    {v \in DOMAIN nodes :
        \E u \in LayoutAncestors(nodes, v) \cup {v} : u \in LayoutAncestors(nodes, u)}

\* C27: the topological ordering step.  For every rendered graph, cyclic
\* ones included, the order holds every node exactly once; the nodes that
\* are neither on a cycle nor below one come first, each after its parent;
\* and the others follow in lexicographic order of their ids.
C27_TopoOrderTotal ==
    svg.present =>
        LET nodes == DATA.nodes
            topo  == TopoOrder(nodes)
            rest  == OnOrBelowCycle(nodes)
            k     == Cardinality(DOMAIN nodes \ rest)
        IN  /\ Len(topo) = Cardinality(DOMAIN nodes)
            /\ Range(topo) = DOMAIN nodes
            /\ Range(SubSeq(topo, 1, k)) = DOMAIN nodes \ rest
            /\ \A i \in 1..k, j \in 1..k :
                  topo[i] \in LayoutParents(nodes, topo[j]) => i < j
            /\ \A i \in (k + 1)..Len(topo), j \in (k + 1)..Len(topo) :
                  i < j => SeqLess(topo[i], topo[j])
            /\ DOMAIN svg.layout.depth = Range(topo)

\* A graph is rendered whose nodes 10 and 2 are on a cycle and follow node 11.
C27_Witness ==
    /\ svg.present
    /\ OnOrBelowCycle(DATA.nodes) = {<<49, 48>>, <<50>>}
    /\ TopoOrder(DATA.nodes) = <<(<<49, 49>>), (<<49, 48>>), (<<50>>)>>

----------------------------------------------------------------------------
\* The y of v before the blocks are separated: 40 + li * layerGap.
LayerY(v) ==
    LET keys == svg.layout.layerKeys
    IN  40 + ((CHOOSE i \in 1..Len(keys) : keys[i] = svg.layout.depth[v]) - 1) * layerGap

\* How far v has moved down.
ShiftOf(v) == svg.layout.boxByName[v].cy - LayerY(v)

NamesOfBlock(blk) == {n \in DOMAIN DATA.nodes : blockOf(DATA.nodes[n]) = blk}

PaddedTop(blk) ==
    LET tops == {svg.layout.boxByName[n].cy - svg.layout.boxByName[n].h \div 2 - BLOCK_PAD :
                    n \in NamesOfBlock(blk)}
    IN  CHOOSE m \in tops : \A t \in tops : m <= t

PaddedBottom(blk) ==
    LET bottoms == {svg.layout.boxByName[n].cy + svg.layout.boxByName[n].h \div 2 + BLOCK_PAD :
                       n \in NamesOfBlock(blk)}
    IN  CHOOSE m \in bottoms : \A b \in bottoms : m >= b

\* C28: block separation.  In every rendered graph, with the blocks in the
\* order of uniqueBlocksInOrder: the padded top of each block is at least
\* BLOCK_GAP below the padded bottom of every block before it; no node is
\* above the y of its layer; the nodes of one block have moved by the same
\* amount; and the nodes of a layer are from left to right in the order of
\* the layer.
C28_BlocksSeparated ==
    svg.present =>
        LET blocks == uniqueBlocksInOrder(DATA.nodes)
            box    == svg.layout.boxByName
        IN  /\ \A i \in 1..Len(blocks), j \in 1..Len(blocks) :
                  j < i => PaddedTop(blocks[i]) >= PaddedBottom(blocks[j]) + BLOCK_GAP
            /\ \A v \in DOMAIN box : ShiftOf(v) >= 0
            /\ \A u \in DOMAIN box, v \in DOMAIN box :
                  blockOf(DATA.nodes[u]) = blockOf(DATA.nodes[v]) => ShiftOf(u) = ShiftOf(v)
            /\ \A d \in DOMAIN svg.layout.layers :
                  \A i \in 1..Len(svg.layout.layers[d]), j \in 1..Len(svg.layout.layers[d]) :
                      i < j => FracLess(box[svg.layout.layers[d][i]].cx,
                                        box[svg.layout.layers[d][j]].cx)

\* A graph is rendered in which a block of two nodes in different layers has
\* been moved down, below another block, and a layer holds two nodes.
C28_Witness ==
    /\ svg.present
    /\ \E u \in DOMAIN DATA.nodes, v \in DOMAIN DATA.nodes :
          /\ blockOf(DATA.nodes[u]) = blockOf(DATA.nodes[v])
          /\ svg.layout.depth[u] < svg.layout.depth[v]
          /\ ShiftOf(u) > 0
    /\ \E d \in DOMAIN svg.layout.layers : Len(svg.layout.layers[d]) >= 2
    /\ Len(uniqueBlocksInOrder(DATA.nodes)) >= 2

----------------------------------------------------------------------------
----------------------------------------------------------------------------
\* No node of the layout is on a cycle of its edges or below one.
AcyclicLayout == OnOrBelowCycle(DATA.nodes) = {}

\* C30: every edge runs downward.  In the graph rendered from acyclic data,
\* for every edge from a parent to a child, the top of the child's box is
\* strictly below the centre of the parent's box.
C30_EdgesRunDownward ==
    (svg.present /\ AcyclicLayout) =>
        \A p \in DOMAIN DATA.nodes :
            \A c \in Range(childrenOf(DATA.nodes, p)) :
                svg.layout.boxByName[c].cy - svg.layout.boxByName[c].h \div 2
                    > svg.layout.boxByName[p].cy
====
